---- MODULE Spec2Model ----
(***************************************************************************)
(* A model of recipe_parser: the number normalizer (quantity.to_number),   *)
(* the ingredient-line parsers and their orchestration                     *)
(* (ingredients.parse_ingredient_line).                                    *)
(*                                                                         *)
(* Text is a sequence of characters, each character a one-element string.  *)
(* Python floats are modelled as exact rationals <<n, d>> in lowest terms  *)
(* with d > 0; the claims checked here compare values that are exactly     *)
(* representable or are stated up to floating-point tolerance.             *)
(***************************************************************************)
EXTENDS Integers, Sequences, FiniteSets, TLC

VARIABLES
    pc,          \* position of the running call: "call" before it, then "loop"
                 \* inside parse_ingredient_line, and "done", "returned" or
                 \* "raised" after it
    num_value,   \* argument of to_number
    num_result,  \* what to_number returned or raised
    line,        \* argument ingredient_line of parse_ingredient_line
    parsers,     \* argument parsers of parse_ingredient_line (<<>>: not given)
    stripped,    \* ingredient_line after strip_bullet_points
    idx,         \* position of the for loop in the parser list
    calls,       \* the parser calls made so far, with what each gave
    parsed,      \* what parse_ingredient_line returned or raised
    earlier,     \* the lines of the parse_ingredient_line calls the process
                 \* has completed before the running one
    units_maps,  \* self._units_map of each registry that a parser looks up
                 \* in, by the registry's unit list: built or not (None),
                 \* and its entries
    first_parse, \* what each line parses to in a process that has parsed
                 \* nothing yet
    eq_call,     \* the operands and compare flags of an equality call
    eq_result,   \* what the equality call returned or raised
    reg_units,   \* self.units of a registry shared by several callers
    reg_map,     \* self._units_map of that registry
    callers,     \* the __getitem__ calls running on it: position, item,
                 \* loop index and result of each
    fn_call,     \* a call of one of the helper functions: its name and
                 \* arguments
    fn_result    \* what that call returned or raised

vars == <<pc, num_value, num_result, line, parsers, stripped, idx, calls, parsed,
          earlier, units_maps, first_parse, eq_call, eq_result,
          reg_units, reg_map, callers, fn_call, fn_result>>

(***************************************************************************)
(* Bounds of the model.                                                    *)
(***************************************************************************)
MaxNumLen == 5
MaxTailParts == 2
MaxParsers == 2

\* The characters number tokens are drawn from: decimal digits, the fraction
\* slash, a whitespace character, the decimal point, the thousands comma, the
\* vulgar fraction one half (U+00BD, written "V" here) and a letter.
Digits == {"0", "1", "2"}
VulgarHalf == "V"
NumChars == Digits \cup {"/", " ", ".", ",", VulgarHalf, "h"}

StringsUpTo(alphabet, n) == UNION {[1..k -> alphabet] : k \in 0..n}

(***************************************************************************)
(* Text helpers: the str methods the code calls.                           *)
(***************************************************************************)
IsSpace(c) == c = " "

RECURSIVE lstrip(_)
lstrip(s) == IF s # <<>> /\ IsSpace(Head(s)) THEN lstrip(Tail(s)) ELSE s

RECURSIVE rstrip(_)
rstrip(s) ==
    IF s # <<>> /\ IsSpace(s[Len(s)]) THEN rstrip(SubSeq(s, 1, Len(s) - 1)) ELSE s

strip(s) == rstrip(lstrip(s))

\* str.split() without argument: the maximal runs of non-whitespace.
RECURSIVE SplitFrom(_, _, _)
SplitFrom(s, cur, acc) ==
    IF s = <<>> THEN (IF cur = <<>> THEN acc ELSE Append(acc, cur))
    ELSE IF IsSpace(Head(s))
         THEN SplitFrom(Tail(s), <<>>, IF cur = <<>> THEN acc ELSE Append(acc, cur))
         ELSE SplitFrom(Tail(s), Append(cur, Head(s)), acc)

split(s) == SplitFrom(s, <<>>, <<>>)

\* ' '.join(pieces)
RECURSIVE join(_)
join(pieces) ==
    IF pieces = <<>> THEN <<>>
    ELSE IF Len(pieces) = 1 THEN pieces[1]
    ELSE pieces[1] \o <<" ">> \o join(Tail(pieces))

\* index of the first occurrence of character c in s, 0 if there is none
\* (str.find, shifted to the 1-based positions of a sequence)
find(s, c) ==
    IF \E i \in 1..Len(s) : s[i] = c
    THEN CHOOSE i \in 1..Len(s) : s[i] = c /\ \A j \in 1..(i - 1) : s[j] # c
    ELSE 0

RemoveChar(s, c) == SelectSeq(s, LAMBDA x : x # c)

(***************************************************************************)
(* Exact rationals.                                                        *)
(***************************************************************************)
RECURSIVE GCD(_, _)
GCD(a, b) == IF b = 0 THEN a ELSE GCD(b, a % b)

Rat(n, d) ==
    LET g == GCD(IF n < 0 THEN -n ELSE n, IF d < 0 THEN -d ELSE d)
        s == IF d < 0 THEN -1 ELSE 1
    IN  <<(s * n) \div g, (s * d) \div g>>

RatAdd(x, y) == Rat(x[1] * y[2] + y[1] * x[2], x[2] * y[2])
RatDiv(x, y) == Rat(x[1] * y[2], x[2] * y[1])
RatInt(k) == <<k, 1>>

RECURSIVE Pow10(_)
Pow10(k) == IF k = 0 THEN 1 ELSE 10 * Pow10(k - 1)

(***************************************************************************)
(* Results of a call: a number, None, or the exception it raised.          *)
(***************************************************************************)
Num(q) == [kind |-> "num", val |-> q]
None == [kind |-> "None", val |-> <<0, 1>>]
Raise(exc) == [kind |-> exc, val |-> <<0, 1>>]
IsRaise(r) == r.kind \notin {"num", "None"}

DigitValue(c) == CASE c = "0" -> 0 [] c = "1" -> 1 [] c = "2" -> 2

\* unicodedata.numeric(c): the numeric value of one character, ValueError if
\* the character has none.
unicodedata_numeric(c) ==
    IF c \in Digits THEN Num(RatInt(DigitValue(c)))
    ELSE IF c = VulgarHalf THEN Num(<<1, 2>>)
    ELSE Raise("ValueError")

RECURSIVE DigitsValue(_)
DigitsValue(ds) ==
    IF ds = <<>> THEN 0
    ELSE 10 * DigitsValue(SubSeq(ds, 1, Len(ds) - 1)) + DigitValue(ds[Len(ds)])

AllDigits(s) == \A i \in 1..Len(s) : s[i] \in Digits

\* float(s) on the model's characters: digits with at most one decimal point
\* and at least one digit; anything else is a ValueError.
float(s) ==
    LET dot == find(s, ".")
        whole == IF dot = 0 THEN s ELSE SubSeq(s, 1, dot - 1)
        frac == IF dot = 0 THEN <<>> ELSE SubSeq(s, dot + 1, Len(s))
    IN  IF AllDigits(whole) /\ AllDigits(frac) /\ Len(whole) + Len(frac) > 0
        THEN Num(Rat(DigitsValue(whole \o frac), Pow10(Len(frac))))
        ELSE Raise("ValueError")

(***************************************************************************)
(* to_number                                                               *)
(***************************************************************************)
\* The loop that removes the space(s) around a division: `pieces` are the
\* tokens still to read, in reading order, `combined` the tokens built so far.
\* (mutant) the tokens are kept as split, no piece is glued to its neighbour
CombinePiecesNoRepair(pieces, combined) == [ok |-> TRUE, pieces |-> pieces]

RECURSIVE CombinePieces(_, _)
CombinePieces(pieces, combined) ==
    IF pieces = <<>> THEN [ok |-> TRUE, pieces |-> combined]
    ELSE
        LET piece == Head(pieces)
            rest == Tail(pieces)
            n == Len(combined)
            failure == [ok |-> FALSE, pieces |-> <<>>]
        IN  IF piece = <<"/">>
            THEN IF n = 0 \/ rest = <<>> THEN failure
                 ELSE CombinePieces(Tail(rest),
                        [combined EXCEPT ![n] = @ \o piece \o Head(rest)])
            ELSE IF Head(piece) = "/"
            THEN IF n = 0 THEN failure
                 ELSE CombinePieces(rest, [combined EXCEPT ![n] = @ \o piece])
            ELSE IF piece[Len(piece)] = "/"
            THEN IF rest = <<>> THEN failure
                 ELSE CombinePieces(Tail(rest), Append(combined, piece \o Head(rest)))
            ELSE CombinePieces(rest, Append(combined, piece))

\* numer, denom = value.split('/', 1); float(numer) / float(denom)
Fraction(value) ==
    LET i == find(value, "/")
        numer == float(SubSeq(value, 1, i - 1))
        denom == float(SubSeq(value, i + 1, Len(value)))
    IN  IF IsRaise(numer) THEN numer
        ELSE IF IsRaise(denom) THEN denom
        ELSE IF denom.val[1] = 0 THEN Raise("ZeroDivisionError")
        ELSE Num(RatDiv(numer.val, denom.val))

\* accumulated_value < 1 adds, otherwise shifts by ten and adds
AccumulateChar(acc, converted_char) ==
    IF converted_char[1] < converted_char[2]
    THEN RatAdd(acc, converted_char)
    ELSE RatAdd(Rat(acc[1] * 10, acc[2]), converted_char)

RECURSIVE to_number(_)
\* for v in value.split(): accumulated_value += to_number(v)
RECURSIVE SumTokens(_, _)
SumTokens(tokens, acc) ==
    IF tokens = <<>> THEN Num(acc)
    ELSE LET converted_number == to_number(Head(tokens))
         IN  IF converted_number.kind # "num" THEN converted_number
             ELSE SumTokens(Tail(tokens), RatAdd(acc, converted_number.val))

\* for char in value: ... to_number(char) ...
RECURSIVE AccumulateChars(_, _)
AccumulateChars(chars, acc) ==
    IF chars = <<>> THEN Num(acc)
    ELSE LET converted_char == to_number(<<Head(chars)>>)
         IN  IF converted_char.kind # "num" THEN converted_char
             ELSE AccumulateChars(Tail(chars), AccumulateChar(acc, converted_char.val))

to_number(text) ==
    LET repaired == CombinePieces(split(strip(text)), <<>>)
        value == join(repaired.pieces)
    IN  IF ~repaired.ok THEN Raise("IndexError")
        ELSE IF Len(value) = 0 THEN None
        ELSE IF Len(value) = 1
        THEN LET n == unicodedata_numeric(value[1])
             IN  IF IsRaise(n) THEN None ELSE n
        ELSE IF Len(split(value)) > 1 THEN SumTokens(split(value), RatInt(0))
        ELSE IF find(value, "/") # 0 THEN Fraction(value)
        ELSE LET f == float(RemoveChar(value, ","))
             IN  IF f.kind = "num" THEN f ELSE AccumulateChars(value, RatInt(0))

\* to_number(value) for a value of any class, [cls, obj]: an int or a float
\* is returned as it is, anything else that is not a str gives None
to_number_value(value) ==
    IF value.cls \in {"int", "float", "bool"} THEN Num(value.obj)
    ELSE IF value.cls # "str" THEN None
    ELSE to_number(value.obj)

(***************************************************************************)
(* Regular expressions.  A pattern is a tree of the nodes below, written   *)
(* as the source writes its pattern strings.  Match lists the ways a       *)
(* pattern matches in the order a backtracking engine tries them (leftmost *)
(* alternative first, greedy repetitions longest first, lazy ones shortest *)
(* first); the match the engine reports is the first of them, with the     *)
(* spans of the named groups it went through.  Matching ignores letter     *)
(* case, as regex.IGNORECASE does.                                         *)
(***************************************************************************)
\* str.lower() on one character
Lower(c) == CASE c = "O" -> "o" [] c = "F" -> "f" [] c = "L" -> "l" [] OTHER -> c
lower(s) == [i \in 1..Len(s) |-> Lower(s[i])]

Chr(set) == [op |-> "chr", set |-> set]                \* [...] or one literal
Cat(items) == [op |-> "cat", items |-> items]          \* concatenation
Alt(items) == [op |-> "alt", items |-> items]          \* a|b|c
\* x? x?? x* x+ x+?; max = -1: unbounded
Rep(item, quantifier) ==
    [op |-> "rep", item |-> item,
     min |-> IF quantifier \in {"+", "+?"} THEN 1 ELSE 0,
     max |-> IF quantifier \in {"?", "??"} THEN 1 ELSE -1,
     greedy |-> quantifier \in {"?", "*", "+"}]
Grp(name, item) == [op |-> "grp", name |-> name, item |-> item] \* (?P<name>...)
Lit(word) == Cat([i \in 1..Len(word) |-> Chr({Lower(word[i])})])
WS == Chr({" "})                                       \* \s

\* A thread of the matcher: where it stands in the text and the spans
\* <<name, start, end>> of the named groups it has closed.
Thread(pos, caps) == [ok |-> TRUE, pos |-> pos, caps |-> caps]

\* seqs[lo] \o ... \o seqs[hi]
RECURSIVE FlattenRange(_, _, _)
FlattenRange(seqs, lo, hi) ==
    IF lo > hi THEN <<>>
    ELSE IF lo = hi THEN seqs[lo]
    ELSE LET mid == (lo + hi) \div 2
         IN  FlattenRange(seqs, lo, mid) \o FlattenRange(seqs, mid + 1, hi)

\* the first occurrence of every thread, in order
Dedup(ths) ==
    SelectSeq([i \in 1..Len(ths) |-> <<i, ths[i]>>],
              LAMBDA p : \A j \in 1..(p[1] - 1) : ths[j] # p[2])

\* a one-character node matches the character at position p
Fits(node, s, p) ==
    p <= Len(s) /\ (node.op = "any" \/ Lower(s[p]) \in node.set)

\* how many characters from pos on a one-character node matches in a row
RunLength(node, s, pos) ==
    CHOOSE n \in 0..(Len(s) + 1 - pos) :
        /\ \A j \in 0..(n - 1) : Fits(node, s, pos + j)
        /\ ~Fits(node, s, pos + n)

\* a repetition of a one-character node: every admissible length, the longest
\* first when greedy and the shortest first when lazy
MatchRun(rep, s, th) ==
    LET run == RunLength(rep.item, s, th.pos)
        hi == IF rep.max # -1 /\ rep.max < run THEN rep.max ELSE run
    IN  IF hi < rep.min THEN <<>>
        ELSE [i \in 1..(hi - rep.min + 1) |->
                Thread(IF rep.greedy THEN th.pos + hi - i + 1
                       ELSE th.pos + rep.min + i - 1, th.caps)]

RECURSIVE Match(_, _, _)
RECURSIVE MatchCat(_, _, _)
RECURSIVE MatchRep(_, _, _, _)

\* every thread in `ths` continued through `node`, earlier threads first
MatchAll(node, s, ths) ==
    LET all == FlattenRange([i \in 1..Len(ths) |-> Match(node, s, ths[i])], 1, Len(ths))
        kept == Dedup(all)
    IN  [i \in 1..Len(kept) |-> kept[i][2]]

\* The ways `node` matches at thread `th`, in the order a backtracking engine
\* tries them.
Match(node, s, th) ==
    CASE node.op = "chr" ->
            IF th.pos <= Len(s) /\ Lower(s[th.pos]) \in node.set
            THEN <<Thread(th.pos + 1, th.caps)>> ELSE <<>>
      [] node.op = "any" ->
            IF th.pos <= Len(s) THEN <<Thread(th.pos + 1, th.caps)>> ELSE <<>>
      [] node.op = "bol" -> IF th.pos = 1 THEN <<th>> ELSE <<>>
      [] node.op = "end" -> IF th.pos = Len(s) + 1 THEN <<th>> ELSE <<>>
      [] node.op = "cat" -> MatchCat(node.items, s, <<th>>)
      [] node.op = "alt" ->
            FlattenRange([i \in 1..Len(node.items) |-> Match(node.items[i], s, th)],
                         1, Len(node.items))
      [] node.op = "grp" ->
            LET inner == Match(node.item, s, th)
            IN  [i \in 1..Len(inner) |->
                    Thread(inner[i].pos,
                           Append(inner[i].caps, <<node.name, th.pos, inner[i].pos>>))]
      [] node.op = "rep" ->
            IF node.item.op \in {"chr", "any"} THEN MatchRun(node, s, th)
            ELSE MatchRep(node, 0, s, th)

MatchCat(items, s, ths) ==
    IF items = <<>> \/ ths = <<>> THEN ths
    ELSE MatchCat(Tail(items), s, MatchAll(Head(items), s, ths))

\* `count` turns of the repetition are done.  An unbounded repetition does not
\* take a turn that matches the empty text.
MatchRep(rep, count, s, th) ==
    LET turn == IF rep.max = -1
                THEN SelectSeq(Match(rep.item, s, th), LAMBDA t : t.pos > th.pos)
                ELSE IF count < rep.max THEN Match(rep.item, s, th)
                ELSE <<>>
        more == FlattenRange([i \in 1..Len(turn) |-> MatchRep(rep, count + 1, s, turn[i])],
                            1, Len(turn))
        stop == IF count >= rep.min THEN <<th>> ELSE <<>>
    IN  IF rep.greedy THEN more \o stop ELSE stop \o more

\* The first way the pattern matches from position pos; with `whole`, up to
\* the end of the text.
FirstThread(ths) ==
    IF ths = <<>> THEN [ok |-> FALSE, pos |-> 0, caps |-> <<>>] ELSE ths[1]

FirstMatch(pattern, s, pos) == FirstThread(Match(pattern, s, Thread(pos, <<>>)))

\* regex.fullmatch(pattern, s, flags=regex.IGNORECASE)
fullmatch(pattern, s) == FirstMatch(Cat(<<pattern, [op |-> "end"]>>), s, 1)

\* An optional text: the value of a group that may not have taken part, a note.
Some(t) == [present |-> TRUE, text |-> t]
NoText == [present |-> FALSE, text |-> <<>>]

\* res.captures(name): the text of every capture of the group, in order
captures(res, s, name) ==
    LET mine == SelectSeq(res.caps, LAMBDA c : c[1] = name)
    IN  [i \in 1..Len(mine) |-> SubSeq(s, mine[i][2], mine[i][3] - 1)]

\* res.group(name): the last capture of the group, None if it has none
group(res, s, name) ==
    LET all == captures(res, s, name)
    IN  IF all = <<>> THEN NoText ELSE Some(all[Len(all)])

\* regex.sub(pattern, '', s): every leftmost non-overlapping match removed
RECURSIVE SubFrom(_, _, _, _)
\* m is the match found at position i, if any
SubNext(pattern, s, i, out, m) ==
    IF m.ok /\ m.pos > i THEN SubFrom(pattern, s, m.pos, out)
    ELSE SubFrom(pattern, s, i + 1, Append(out, s[i]))

SubFrom(pattern, s, i, out) ==
    IF i > Len(s) THEN out
    ELSE SubNext(pattern, s, i, out, FirstMatch(pattern, s, i))

sub(pattern, s) == SubFrom(pattern, s, 1, <<>>)

(***************************************************************************)
(* BasicIngredientParser                                                   *)
(***************************************************************************)
\* DEFAULT_OPTIONAL_REGEX = r'\s*[,(]?\s*optional\s*\)?'
DEFAULT_OPTIONAL_REGEX ==
    Cat(<<Rep(WS, "*"), Rep(Chr({",", "("}), "?"), Rep(WS, "*"),
          Lit(<<"o", "p", "t", "i", "o", "n", "a", "l">>),
          Rep(WS, "*"), Rep(Chr({")"}), "?")>>)

deoptionalize_ingredient_line(text) == sub(DEFAULT_OPTIONAL_REGEX, text)

\* text.rstrip(')')
RECURSIVE rstrip_paren(_)
rstrip_paren(s) ==
    IF s # <<>> /\ s[Len(s)] = ")" THEN rstrip_paren(SubSeq(s, 1, Len(s) - 1)) ELSE s

\* a split at the comma that keeps the whitespace around the two parts
extract_comma_untrimmed(text, i) ==
    [name |-> SubSeq(text, 1, i - 1), note |-> Some(SubSeq(text, i + 1, Len(text)))]

extract_comma(text, i) ==
    [name |-> strip(SubSeq(text, 1, i - 1)),
     note |-> Some(strip(SubSeq(text, i + 1, Len(text))))]

extract_paren(text, i) ==
    [name |-> strip(SubSeq(text, 1, i - 1)),
     note |-> Some(strip(rstrip_paren(SubSeq(text, i + 1, Len(text)))))]

\* positions are 1-based, 0 where the code has -1
\* if note is not None and len(note) == 0: note = None
\* the split as it is, an empty note included
KeepEmptyNote(split_) == split_

NoEmptyNote(split_) ==
    IF split_.note.present /\ Len(split_.note.text) = 0
    THEN [split_ EXCEPT !.note = NoText]
    ELSE split_

ExtractAt(name, i_comma, i_paren) ==
    IF i_comma = 0
    THEN IF i_paren = 0 THEN [name |-> name, note |-> NoText]
         ELSE extract_paren(name, i_paren)
    ELSE IF i_paren = 0 THEN extract_comma(name, i_comma)
    ELSE IF i_paren < i_comma THEN extract_paren(name, i_paren)
    ELSE extract_comma(name, i_comma)

extract_note_from_name(name) ==
    NoEmptyNote(ExtractAt(name, find(name, ","), find(name, "(")))

\* if name.lower().startswith('of'): name = name[2:].lstrip()
StripLeadingOf(name) ==
    IF Len(name) >= 2 /\ SubSeq(lower(name), 1, 2) = <<"o", "f">>
    THEN lstrip(SubSeq(name, 3, Len(name)))
    ELSE name

(***************************************************************************)
(* Units (units.py).  The registries of the model hold a few rows of the   *)
(* vocabulary tables, each row as the table has it.                        *)
(***************************************************************************)
Unit(name, abbreviation, plural_name, plural_abbreviation, other_representations) ==
    [name |-> name, abbreviation |-> abbreviation, plural_name |-> plural_name,
     plural_abbreviation |-> plural_abbreviation,
     other_representations |-> other_representations]

\* Unit.__iter__: the representations that are not None, in field order
UnitIter(u) ==
    LET fields == <<u.name, u.abbreviation, u.plural_name, u.plural_abbreviation>>
        given == SelectSeq(fields, LAMBDA f : f.present)
    IN  [i \in 1..Len(given) |-> given[i].text] \o u.other_representations

\* Unit.__bool__: any(self)
UnitBool(u) == \E i \in 1..Len(UnitIter(u)) : UnitIter(u)[i] # <<>>

NO_UNIT == Unit(NoText, NoText, NoText, NoText, <<>>)

unit_ounce == Unit(Some(<<"o", "u", "n", "c", "e">>), Some(<<"o", "z">>), Some(<<"o", "u", "n", "c", "e", "s">>), NoText, <<>>)
unit_teaspoon ==
    Unit(Some(<<"t", "e", "a", "s", "p", "o", "o", "n">>), Some(<<"t", "s", "p">>), Some(<<"t", "e", "a", "s", "p", "o", "o", "n", "s">>), NoText, <<<<"t">>, <<"t", "s", "p", "s">>>>)
unit_cup == Unit(Some(<<"c", "u", "p">>), Some(<<"c">>), Some(<<"c", "u", "p", "s">>), NoText, <<>>)
unit_can == Unit(Some(<<"c", "a", "n">>), NoText, Some(<<"c", "a", "n", "s">>), NoText, <<>>)

unit_liter ==
    Unit(Some(<<"l", "i", "t", "e", "r">>), Some(<<"L">>), Some(<<"l", "i", "t", "e", "r", "s">>), NoText,
         <<<<"l", "i", "t", "r", "e">>, <<"l", "i", "t", "r", "e", "s">>, <<"l">>>>)

\* _all_units = _units_weights + _units_volumes + _units_length + _units_amounts
american_units == <<unit_ounce, unit_teaspoon, unit_cup, unit_liter, unit_can>>
item_units == <<unit_can>>
weight_units == <<unit_ounce>>

pre_unit_modifiers_sml == <<<<"m", "d">>, <<"l", "g">>, <<"s", "m">>>>
pre_unit_modifiers_volume == <<<<"s", "c", "a", "n", "t">>>>

\* UnitsRegistry.all_units_as_strings
RECURSIVE all_units_as_strings(_)
all_units_as_strings(units) ==
    IF units = <<>> THEN <<>>
    ELSE UnitIter(Head(units)) \o all_units_as_strings(Tail(units))

\* UnitsRegistry.transform_for_regex: ' ' becomes \s+, '.' a literal dot
transform_for_regex(alias) ==
    Cat([i \in 1..Len(alias) |->
            IF alias[i] = " " THEN Rep(WS, "+") ELSE Chr({Lower(alias[i])})])

\* '|'.join(registry.all_units_as_regex_strings())
units_regex(units) ==
    LET aliases == all_units_as_strings(units)
    IN  Alt([i \in 1..Len(aliases) |-> transform_for_regex(aliases[i])])

\* UnitsRegistry.normalize_for_lookup: regex.sub(r'\s+', ' ', unit)
RECURSIVE normalize_for_lookup(_)
normalize_for_lookup(t) ==
    IF t = <<>> THEN <<>>
    ELSE IF IsSpace(Head(t))
         THEN <<" ">> \o normalize_for_lookup(lstrip(t))
         ELSE <<Head(t)>> \o normalize_for_lookup(Tail(t))

\* an alias map whose colliding aliases go to the unit registered last
RECURSIVE units_map_last_wins(_, _)
units_map_last_wins(units, map) ==
    IF units = <<>> THEN map
    ELSE LET unit == Head(units)
             aliases == UnitIter(unit)
             norm == [i \in 1..Len(aliases) |-> normalize_for_lookup(aliases[i])]
             kept == SelectSeq(map,
                        LAMBDA e : \A k \in 1..Len(norm) : norm[k] # e[1])
         IN  units_map_last_wins(Tail(units),
                                 kept \o [i \in 1..Len(norm) |-> <<norm[i], unit>>])

\* The alias map of UnitsRegistry.__getitem__, as the list of its (alias, unit)
\* entries: a unit's alias that is already in the map is dropped.
RECURSIVE units_map(_, _)
units_map(units, map) ==
    IF units = <<>> THEN map
    ELSE LET unit == Head(units)
             aliases == UnitIter(unit)
             norm == [i \in 1..Len(aliases) |-> normalize_for_lookup(aliases[i])]
             fresh == SelectSeq(norm,
                        LAMBDA a : \A k \in 1..Len(map) : map[k][1] # a)
         IN  units_map(Tail(units), map \o [i \in 1..Len(fresh) |-> <<fresh[i], unit>>])

\* dict.get(key, default)
MapGet(map, key, default) ==
    IF \E k \in 1..Len(map) : map[k][1] = key
    THEN map[CHOOSE k \in 1..Len(map) : map[k][1] = key][2]
    ELSE default

\* UnitsRegistry.__getitem__(item); the caller replaces None by NO_UNIT
\* self._units_map.get(item, self._units_map.get(item.lower()))
MapLookup(map, key) == MapGet(map, key, MapGet(map, lower(key), NO_UNIT))

\* a lookup that empties a map it finds built
BuiltMapCleared(map, units) ==
    [built |-> TRUE, entries |-> IF map.built THEN <<>> ELSE units_map(units, <<>>)]

\* self._units_map after the if self._units_map is None block of __getitem__
BuiltMap(map, units) ==
    [built |-> TRUE, entries |-> IF map.built THEN map.entries ELSE units_map(units, <<>>)]

registry_getitem(units, item) ==
    IF ~item.present THEN NO_UNIT
    ELSE MapLookup(BuiltMap(units_maps[units], units).entries,
                   normalize_for_lookup(item.text))

(***************************************************************************)
(* Quantities (quantity.py).  A Quantity's amount is a to_number result.   *)
(***************************************************************************)
QuantityUnit(unit, modifier) == [unit |-> unit, modifier |-> modifier]

Quantity(amount, unit, approximate) ==
    [amount |-> amount, unit |-> unit, approximate |-> approximate]

\* QuantityUnit.__bool__
QuantityUnitBool(qu) ==
    UnitBool(qu.unit) \/ (qu.modifier.present /\ qu.modifier.text # <<>>)

\* Quantity.__bool__: bool(self.amount or self.unit)
QuantityBool(q) ==
    (q.amount.kind = "num" /\ q.amount.val[1] # 0) \/ QuantityUnitBool(q.unit)

is_empty(q) == ~QuantityBool(q)

\* TotalQuantity.__init__: the empty quantities are filtered out
\* a TotalQuantity that keeps every Quantity it is given
TotalQuantityUnfiltered(quantities) == quantities

TotalQuantity(quantities) == SelectSeq(quantities, LAMBDA q : ~is_empty(q))

\* TotalQuantity.__bool__
TotalQuantityBool(tq) == \E i \in 1..Len(tq) : QuantityBool(tq[i])

QuantityRange(from_quantity, to_quantity) ==
    [from_quantity |-> from_quantity, to_quantity |-> to_quantity]

CompleteQuantity(primary_quantity, equivalent_quantities) ==
    [primary_quantity |-> primary_quantity, equivalent_quantities |-> equivalent_quantities]

NO_TOTAL_QUANTITY == TotalQuantity(<<>>)
\* CompleteQuantity(): primary_quantity = NO_QUANTITY_RANGE = QuantityRange()
NO_COMPLETE_QUANTITY ==
    CompleteQuantity(QuantityRange(NO_TOTAL_QUANTITY, NO_TOTAL_QUANTITY), <<>>)

(***************************************************************************)
(* The result of a parser call: an Ingredient, None, or an exception.      *)
(***************************************************************************)
Ingredient(name, quantity, notes, optional) ==
    [kind |-> "Ingredient", name |-> name, quantity |-> quantity,
     notes |-> notes, optional |-> optional]
NoIngredient == [kind |-> "None", name |-> <<>>, quantity |-> NO_COMPLETE_QUANTITY,
                 notes |-> NoText, optional |-> FALSE]

\* a fallback that gives up on a line with a note
BasicOfNameOnly(text, deoptionalized_ingredient_line) ==
    IF find(deoptionalized_ingredient_line, ",") # 0
       \/ find(deoptionalized_ingredient_line, "(") # 0
    THEN NoIngredient
    ELSE LET split_ == extract_note_from_name(StripLeadingOf(deoptionalized_ingredient_line))
         IN  Ingredient(split_.name, NO_COMPLETE_QUANTITY, split_.note,
                        text # deoptionalized_ingredient_line)

BasicIngredientParserNameOnly(text) ==
    BasicOfNameOnly(text, deoptionalize_ingredient_line(text))

\* BasicIngredientParser.__call__
BasicOf(text, deoptionalized_ingredient_line) ==
    LET split_ == extract_note_from_name(StripLeadingOf(deoptionalized_ingredient_line))
    IN  Ingredient(split_.name, NO_COMPLETE_QUANTITY, split_.note,
                   text # deoptionalized_ingredient_line)

BasicIngredientParser(text) == BasicOf(text, deoptionalize_ingredient_line(text))

(***************************************************************************)
(* Equality.  `other` is an operand with its class, [cls, obj], which is   *)
(* what isinstance looks at.  A TotalQuantity operand is [id, quantities]: *)
(* the class defines no __eq__, so == on it is the identity of the object, *)
(* and `id` is that identity.  The results of equals are "True", "False"   *)
(* or the name of the exception raised.                                    *)
(***************************************************************************)
\* Unit.__eq__: all(representation in other for representation in self) for
\* a Unit, other in self for anything else
Unit_eq(self, other) ==
    IF other.cls = "Unit"
    THEN \A i \in 1..Len(UnitIter(self)) :
            \E j \in 1..Len(UnitIter(other.obj)) :
                UnitIter(other.obj)[j] = UnitIter(self)[i]
    ELSE /\ other.cls = "str"
         /\ \E i \in 1..Len(UnitIter(self)) : UnitIter(self)[i] = other.obj

\* QuantityUnit.__eq__
QuantityUnit_eq(self, other) ==
    /\ other.cls = "QuantityUnit"
    /\ Unit_eq(self.unit, [cls |-> "Unit", obj |-> other.obj.unit])
    /\ self.modifier = other.obj.modifier

\* an equality that also compares the approximate flags
Quantity_eq_approximate(self, other) ==
    /\ other.cls = "Quantity"
    /\ self.amount = other.obj.amount
    /\ self.approximate = other.obj.approximate
    /\ \/ self.amount = None
       \/ QuantityUnit_eq(self.unit, [cls |-> "QuantityUnit", obj |-> other.obj.unit])

\* Quantity.__eq__
Quantity_eq(self, other) ==
    IF other.cls # "Quantity" THEN FALSE
    ELSE IF self.amount # other.obj.amount THEN FALSE
    ELSE IF self.amount = None THEN TRUE
    ELSE QuantityUnit_eq(self.unit, [cls |-> "QuantityUnit", obj |-> other.obj.unit])

\* QuantityRange.equals, which __eq__ returns
QuantityRange_equals(self, other) ==
    /\ other.cls = "QuantityRange"
    /\ self.from_quantity.id = other.obj.from_quantity.id
    /\ self.to_quantity.id = other.obj.to_quantity.id

\* CompleteQuantity.equals; set() of a non-empty list of QuantityRange raises
\* TypeError, the class having __eq__ and no __hash__
CompleteQuantity_equals(self, other, compare_equivalent_to) ==
    IF other.cls # "CompleteQuantity" THEN "False"
    ELSE IF ~QuantityRange_equals(self.primary_quantity,
                                  [cls |-> "QuantityRange",
                                   obj |-> other.obj.primary_quantity])
    THEN "False"
    ELSE IF ~compare_equivalent_to THEN "True"
    ELSE IF self.equivalent_quantities # <<>> \/ other.obj.equivalent_quantities # <<>>
    THEN "TypeError"
    ELSE "True"

\* Ingredient.equals: self.quantity.equals is given `other`, the Ingredient
Ingredient_equals(self, other, compare_notes, compare_optional, compare_equivalent_quantity) ==
    IF other.cls # "Ingredient" THEN "False"
    ELSE IF self.name # other.obj.name THEN "False"
    ELSE IF CompleteQuantity_equals(self.quantity, other,
                                    compare_equivalent_quantity) # "True"
    THEN CompleteQuantity_equals(self.quantity, other, compare_equivalent_quantity)
    ELSE IF /\ ~compare_notes \/ self.notes = other.obj.notes
            /\ ~compare_optional \/ self.optional = other.obj.optional
    THEN "True"
    ELSE "False"

(***************************************************************************)
(* The grammar fragments both quantity parsers are built from.             *)
(***************************************************************************)
\* approx_regex_pre_amount = r'(?:~|about|approx(?:\.|imately)?)'
approx_regex_pre_amount ==
    Alt(<<Lit(<<"~">>), Lit(<<"a", "b", "o", "u", "t">>),
          Cat(<<Lit(<<"a", "p", "p", "r", "o", "x">>), Rep(Alt(<<Lit(<<".">>), Lit(<<"i", "m", "a", "t", "e", "l", "y">>)>>), "?")>>)>>)

\* approx_regex_post_unit = r'(:?\(?\+/-\)?)'
approx_regex_post_unit ==
    Cat(<<Rep(Chr({":"}), "?"), Rep(Chr({"("}), "?"), Lit(<<"+", "/", "-">>), Rep(Chr({")"}), "?")>>)

\* plus_regex = '|'.join([r'\+', 'and', 'plus', ','])
plus_regex == Alt(<<Lit(<<"+">>), Lit(<<"a", "n", "d">>), Lit(<<"p", "l", "u", "s">>), Lit(<<",">>)>>)

\* dash_regex = r'(?:[-‒-―⁓~]|to)'
dash_regex == Alt(<<Chr({"-", "~"}), Lit(<<"t", "o">>)>>)

\* FRACTION_REGEX = r'(?:[⅐-⅞¼-¾]|(?:\d+\s*/\s*\d+))'
FRACTION_REGEX ==
    Alt(<<Chr({VulgarHalf}),
          Cat(<<Rep(Chr(Digits), "+"), Rep(WS, "*"), Chr({"/"}), Rep(WS, "*"), Rep(Chr(Digits), "+")>>)>>)

\* DECIMAL_REGEX = r'\d*(?:\.\d*)?'
DECIMAL_REGEX == Cat(<<Rep(Chr(Digits), "*"), Rep(Cat(<<Chr({"."}), Rep(Chr(Digits), "*")>>), "?")>>)

\* NUMBER_REGEX = fr'(?:{DECIMAL_REGEX})?\s*(?:{FRACTION_REGEX})?'
NUMBER_REGEX == Cat(<<Rep(DECIMAL_REGEX, "?"), Rep(WS, "*"), Rep(FRACTION_REGEX, "?")>>)

(***************************************************************************)
(* What both parsers do with a matched quantity token.                     *)
(***************************************************************************)
\* amount = res.group(...); 'a' stands for 1; to_number(amount)
AmountOf(amount) ==
    IF ~amount.present THEN None
    ELSE IF lower(amount.text) = <<"a">> THEN Num(RatInt(1))
    ELSE to_number(amount.text)

\* Quantity(to_number(amount), quantity_unit, approximate), or the exception
QuantityOrRaise(amount, quantity_unit, approximate) ==
    [ok |-> ~IsRaise(amount), exc |-> amount.kind,
     quantity |-> Quantity(IF IsRaise(amount) THEN None ELSE amount,
                           quantity_unit, approximate)]

\* The Quantity both parse_quantity_match methods build from the groups of
\* `label`, or the exception to_number raised; approximate is
\* bool(res.group('approxPreAmount...')) or bool(res.group('approxPostUnit...'))
QuantityOfMatch(units, res, s, label) ==
    QuantityOrRaise(
        AmountOf(group(res, s, "amount" \o label)),
        QuantityUnit(registry_getitem(units, group(res, s, "unit" \o label)),
                     group(res, s, "pre_unit_mod" \o label)),
        group(res, s, "approxPreAmount" \o label).text # <<>>
            \/ group(res, s, "approxPostUnit" \o label).text # <<>>)

(***************************************************************************)
(* IngredientParser and IngredientBeforeQuantity, which differ in          *)
(* amount_required and in where the name stands.                           *)
(***************************************************************************)
\* amount_regex = r'[0-9⅐-⅞¼-¾,./\s]+|a'
amount_regex ==
    Alt(<<Rep(Chr(Digits \cup {VulgarHalf} \cup {",", ".", "/", " "}), "+"), Lit(<<"a">>)>>)

\* pre_unit_modifiers = '|'.join(pre_unit_modifiers_sml + pre_unit_modifiers_volume)
pre_unit_modifiers ==
    Alt([i \in 1..(Len(pre_unit_modifiers_sml) + Len(pre_unit_modifiers_volume)) |->
            Lit((pre_unit_modifiers_sml \o pre_unit_modifiers_volume)[i])])

\* quantity_regex_fmt with the label filled in
quantity_regex(label, amount_required) ==
    LET amount == Grp("amount" \o label, amount_regex)
    IN  Cat(<<Rep(Grp("approxPreAmount" \o label, approx_regex_pre_amount), "?"), Rep(WS, "*"),
              IF amount_required THEN amount ELSE Rep(amount, "?"), Rep(WS, "*"),
              Rep(Grp("pre_unit_mod" \o label, pre_unit_modifiers), "?"), Rep(WS, "*"),
              Rep(Grp("unit" \o label, units_regex(american_units)), "?"), Rep(Chr({"."}), "?"),
              Rep(WS, "*"),
              Rep(Grp("approxPostUnit" \o label, approx_regex_post_unit), "?")>>)

\* quantity_total_regex_fmt with the label filled in
quantity_total_regex(label, amount_required) ==
    Cat(<<quantity_regex(label, amount_required),
          Rep(Cat(<<Rep(WS, "*"), plus_regex, Rep(WS, "*"),
                     Grp("subsequent" \o label,
                         quantity_regex(label \o "_subsequent", amount_required))>>), "*")>>)

\* quantity_range_regex_fmt with label ''
quantity_range_regex(amount_required) ==
    Cat(<<quantity_total_regex("from", amount_required),
          Rep(Cat(<<Rep(WS, "*"), dash_regex, Rep(WS, "*"),
                    quantity_total_regex("to", amount_required)>>), "?"),
          Rep(WS, "*"),
          Rep(Cat(<<Chr({"("}), quantity_total_regex("equivalent", amount_required),
                    Chr({")"})>>), "?")>>)

\* IngredientParser.get_regex(), inside the \s* ... \s* of parse
IngredientParser_regex ==
    Cat(<<Rep(WS, "*"), quantity_range_regex(FALSE), Rep(WS, "+"), Grp("name", Rep([op |-> "any"], "+")),
          Rep(WS, "*")>>)

\* ingredient_quantity_separator_regex = r'[-‒-―⁓~]'
ingredient_quantity_separator_regex == Chr({"-", "~"})

\* IngredientBeforeQuantity.get_regex(), inside the \s* ... \s* of parse
IngredientBeforeQuantity_regex ==
    Cat(<<Rep(WS, "*"), Grp("name", Rep([op |-> "any"], "+?")), Rep(WS, "*"),
          Rep(ingredient_quantity_separator_regex, "?"), Rep(WS, "*"),
          quantity_range_regex(TRUE), Rep(WS, "*")>>)

\* get_quantity_regex(''), which each captured additive term is matched against
subsequent_regex == [amount_required \in BOOLEAN |-> quantity_regex("", amount_required)]

\* the loop of parse_quantity_total_match over res.captures('subsequent...')
RECURSIVE SubsequentQuantities(_, _, _)
\* q is what parse_quantity_match made of the first text of subs
SubsequentNext(subs, amount_required, acc, q) ==
    IF ~q.ok THEN [ok |-> FALSE, exc |-> q.exc, total |-> <<>>]
    ELSE SubsequentQuantities(Tail(subs), amount_required, Append(acc, q.quantity))

\* subs_res = regex.fullmatch(self.get_quantity_regex(''), subs, ...) and
\* self.parse_quantity_match(subs_res, ''); at the end TotalQuantity(total_quantity)
SubsequentQuantities(subs, amount_required, acc) ==
    IF subs = <<>> THEN [ok |-> TRUE, exc |-> "", total |-> TotalQuantity(acc)]
    ELSE SubsequentNext(subs, amount_required, acc,
                        QuantityOfMatch(american_units,
                                        fullmatch(subsequent_regex[amount_required],
                                                  Head(subs)),
                                        Head(subs), ""))

\* first is what parse_quantity_match made of the groups of `label`
TotalFrom(first, subs, amount_required) ==
    IF ~first.ok THEN [ok |-> FALSE, exc |-> first.exc, total |-> <<>>]
    ELSE SubsequentQuantities(subs, amount_required, <<first.quantity>>)

parse_quantity_total_match(res, s, label, amount_required) ==
    TotalFrom(QuantityOfMatch(american_units, res, s, label),
              captures(res, s, "subsequent" \o label), amount_required)

\* parse_quantity_range_match without the heuristic: both sides as extracted
InheritUnitNever(from_quantity, to_quantity) ==
    QuantityRange(from_quantity, to_quantity)

\* a heuristic that gives the unit to every unit-less 'from' term
InheritUnitEveryTerm(from_quantity, to_quantity) ==
    IF Len(from_quantity) # 0 /\ ~QuantityUnitBool(from_quantity[1].unit)
       /\ Len(to_quantity) # 0
    THEN QuantityRange([i \in 1..Len(from_quantity) |->
                           IF QuantityUnitBool(from_quantity[i].unit) THEN from_quantity[i]
                           ELSE [from_quantity[i] EXCEPT !.unit = to_quantity[1].unit]],
                       IF to_quantity[1].amount = None THEN TotalQuantity(<<>>)
                       ELSE to_quantity)
    ELSE QuantityRange(from_quantity, to_quantity)

\* a heuristic that discards every 'to' side whose first term has no amount
InheritUnitDiscardAmountless(from_quantity, to_quantity) ==
    IF Len(to_quantity) # 0 /\ to_quantity[1].amount = None
    THEN QuantityRange(IF Len(from_quantity) # 0 /\ ~QuantityUnitBool(from_quantity[1].unit)
                       THEN [from_quantity EXCEPT ![1].unit = to_quantity[1].unit]
                       ELSE from_quantity,
                       TotalQuantity(<<>>))
    ELSE IF Len(from_quantity) # 0 /\ ~QuantityUnitBool(from_quantity[1].unit)
            /\ Len(to_quantity) # 0
    THEN QuantityRange([from_quantity EXCEPT ![1].unit = to_quantity[1].unit], to_quantity)
    ELSE QuantityRange(from_quantity, to_quantity)

\* The ambiguity heuristic of parse_quantity_range_match on the two extracted
\* sides: the unit of the first 'to' term goes to a unit-less first 'from' term.
InheritUnit(from_quantity, to_quantity) ==
    IF Len(from_quantity) # 0 /\ ~QuantityUnitBool(from_quantity[1].unit)
       /\ Len(to_quantity) # 0
    THEN QuantityRange([from_quantity EXCEPT ![1].unit = to_quantity[1].unit],
                       IF to_quantity[1].amount = None THEN TotalQuantity(<<>>)
                       ELSE to_quantity)
    ELSE QuantityRange(from_quantity, to_quantity)

\* the CompleteQuantity of the three extracted sides, unless one raised
CompleteOrRaise(from_quantity, to_quantity, equivalent_quantity) ==
    IF ~from_quantity.ok THEN from_quantity
    ELSE IF ~to_quantity.ok THEN to_quantity
    ELSE IF ~equivalent_quantity.ok THEN equivalent_quantity
    ELSE [ok |-> TRUE, exc |-> "",
          total |-> CompleteQuantity(
              InheritUnit(from_quantity.total, to_quantity.total),
              IF TotalQuantityBool(equivalent_quantity.total)
              THEN <<QuantityRange(equivalent_quantity.total, NO_TOTAL_QUANTITY)>>
              ELSE <<>>)]

parse_quantity_range_match(res, s, amount_required) ==
    CompleteOrRaise(parse_quantity_total_match(res, s, "from", amount_required),
                    parse_quantity_total_match(res, s, "to", amount_required),
                    parse_quantity_total_match(res, s, "equivalent", amount_required))

\* Ingredient(name, quantity, note, optional), unless the quantity raised
IngredientOrRaise(quantity, split_, optional) ==
    IF ~quantity.ok THEN [NoIngredient EXCEPT !.kind = quantity.exc]
    ELSE Ingredient(split_.name, quantity.total, split_.note, optional)

\* parse_match on the match res of the deoptionalized line s
IngredientParser_parse_match(res, s, amount_required, optional) ==
    IF ~res.ok THEN NoIngredient
    ELSE IngredientOrRaise(
             parse_quantity_range_match(res, s, amount_required),
             extract_note_from_name(StripLeadingOf(strip(group(res, s, "name").text))),
             optional)

\* IngredientParser.parse, given deoptionalize_ingredient_line(text)
IngredientParser_parse(pattern, amount_required, text, deoptionalized_ingredient_line) ==
    IngredientParser_parse_match(fullmatch(pattern, deoptionalized_ingredient_line),
                                 deoptionalized_ingredient_line, amount_required,
                                 text # deoptionalized_ingredient_line)

IngredientParser(text) ==
    IngredientParser_parse(IngredientParser_regex, FALSE, text,
                           deoptionalize_ingredient_line(text))

IngredientBeforeQuantity(text) ==
    IngredientParser_parse(IngredientBeforeQuantity_regex, TRUE, text,
                           deoptionalize_ingredient_line(text))

(***************************************************************************)
(* UnitSizeIngredientParser, as DEFAULT_INGREDIENT_PARSERS configures it.  *)
(***************************************************************************)
\* unit_modifiers = fr"\(?{NUMBER_REGEX}(?:-|\s+)?(?:{weight units})\)?"
unit_size_modifiers ==
    Cat(<<Rep(Chr({"("}), "?"), NUMBER_REGEX, Rep(Alt(<<Chr({"-"}), Rep(WS, "+")>>), "?"),
          units_regex(weight_units), Rep(Chr({")"}), "?")>>)

\* UnitSizeIngredientParser.get_regex(), inside the \s* ... \s* of parse
UnitSizeIngredientParser_regex ==
    Cat(<<Rep(WS, "*"),
          Rep(Grp("approxPreAmount", approx_regex_pre_amount), "?"), Rep(WS, "*"),
          Rep(Grp("amount", Alt(<<NUMBER_REGEX, Lit(<<"a">>)>>)), "??"), Rep(WS, "*"),
          Rep(Grp("pre_unit_mod", unit_size_modifiers), "?"), Rep(WS, "*"),
          Grp("unit", units_regex(item_units)), Rep(Chr({"."}), "?"), Rep(WS, "*"),
          Rep(Grp("approxPostUnit", approx_regex_post_unit), "?"),
          Rep(WS, "+"), Grp("name", Rep([op |-> "any"], "+")), Rep(WS, "*")>>)

\* CompleteQuantity.to_complete_quantity(Quantity(...)), unless it raised
to_complete_quantity(q) ==
    [ok |-> q.ok, exc |-> q.exc,
     total |-> CompleteQuantity(
                   QuantityRange(TotalQuantity(<<q.quantity>>), NO_TOTAL_QUANTITY), <<>>)]

\* parse_match on the match res of the deoptionalized line s
UnitSizeIngredientParser_parse_match(res, s, optional) ==
    IF ~res.ok THEN NoIngredient
    ELSE IngredientOrRaise(
             to_complete_quantity(QuantityOfMatch(item_units, res, s, "")),
             extract_note_from_name(StripLeadingOf(group(res, s, "name").text)),
             optional)

\* UnitSizeIngredientParser.parse, given deoptionalize_ingredient_line(text)
UnitSizeIngredientParser_parse(text, deoptionalized_ingredient_line) ==
    UnitSizeIngredientParser_parse_match(
        fullmatch(UnitSizeIngredientParser_regex, deoptionalized_ingredient_line),
        deoptionalized_ingredient_line, text # deoptionalized_ingredient_line)

UnitSizeIngredientParser(text) ==
    UnitSizeIngredientParser_parse(text, deoptionalize_ingredient_line(text))

(***************************************************************************)
(* parse_ingredient_line                                                   *)
(***************************************************************************)
\* DEFAULT_BULLET_REGEXES = [r'^(\s*[-*]\s*)']
DEFAULT_BULLET_REGEXES == <<Cat(<<[op |-> "bol"], Rep(WS, "*"), Chr({"-", "*"}), Rep(WS, "*")>>)>>

\* strip_bullet_points(ingredient_line, patterns): the first pattern that
\* changes the line decides
RECURSIVE strip_bullet_points(_, _)
\* every pattern applied in turn, each to the result of the one before
StripNextEvery(ingredient_line, patterns, result) ==
    strip_bullet_points(result, Tail(patterns))

\* result = regex.sub(pattern, '', ingredient_line) for the first pattern
StripNext(ingredient_line, patterns, result) ==
    IF result # ingredient_line THEN result
    ELSE strip_bullet_points(ingredient_line, Tail(patterns))

strip_bullet_points(ingredient_line, patterns) ==
    IF patterns = <<>> THEN ingredient_line
    ELSE StripNext(ingredient_line, patterns, sub(Head(patterns), ingredient_line))

\* strip_bullet_points(ingredient_line, patterns) for patterns of any class,
\* [cls, obj]: falsy patterns return the line, True stands for
\* DEFAULT_BULLET_REGEXES and a str for the list of itself.  The empty
\* pattern string is Cat(<<>>).
strip_bullet_points_value(ingredient_line, patterns) ==
    IF \/ patterns.cls = "NoneType"
       \/ patterns.cls = "bool" /\ ~patterns.obj
       \/ patterns.cls = "str" /\ patterns.obj = Cat(<<>>)
       \/ patterns.cls = "list" /\ patterns.obj = <<>>
    THEN ingredient_line
    ELSE strip_bullet_points(ingredient_line,
                             IF patterns.cls = "bool" THEN DEFAULT_BULLET_REGEXES
                             ELSE IF patterns.cls = "str" THEN <<patterns.obj>>
                             ELSE patterns.obj)

\* the parsers by name, in the order of DEFAULT_INGREDIENT_PARSERS
DEFAULT_INGREDIENT_PARSERS ==
    <<"UnitSizeIngredientParser", "IngredientParser", "IngredientBeforeQuantity",
      "BasicIngredientParser">>

\* parser(ingredient_line)
CallParser(parser, text) ==
    CASE parser = "UnitSizeIngredientParser" -> UnitSizeIngredientParser(text)
      [] parser = "IngredientParser" -> IngredientParser(text)
      [] parser = "IngredientBeforeQuantity" -> IngredientBeforeQuantity(text)
      [] parser = "BasicIngredientParser" -> BasicIngredientParser(text)

\* The alias maps after parser(ingredient_line) gave parsed_ingredient: a
\* grammar parser whose regex matched has looked up in its registry
\* (parse_quantity_match), also when to_number raised afterwards.
MapsAfterCall(parser, parsed_ingredient) ==
    IF parsed_ingredient.kind = "None" \/ parser = "BasicIngredientParser" THEN units_maps
    ELSE IF parser = "UnitSizeIngredientParser"
         THEN [units_maps EXCEPT ![item_units] = BuiltMap(@, item_units)]
         ELSE [units_maps EXCEPT ![american_units] = BuiltMap(@, american_units)]

\* the for loop of parse_ingredient_line as a function of the parser list
RECURSIVE FirstParsed(_, _)
FirstOrNext(ps, text, parsed_ingredient) ==
    IF parsed_ingredient.kind # "None" THEN parsed_ingredient
    ELSE FirstParsed(Tail(ps), text)

FirstParsed(ps, text) ==
    IF ps = <<>> THEN NoIngredient
    ELSE FirstOrNext(ps, text, CallParser(Head(ps), text))

\* parse_ingredient_line(ingredient_line, parsers) with strip_bullets=True
parse_ingredient_line(ingredient_line, ps) ==
    FirstParsed(IF ps = <<>> THEN DEFAULT_INGREDIENT_PARSERS ELSE ps,
                strip_bullet_points(ingredient_line, DEFAULT_BULLET_REGEXES))

(***************************************************************************)
(* Specification of the number normalizer: any bounded string is given to  *)
(* to_number once.                                                         *)
(***************************************************************************)
InitNumber ==
    /\ pc = "call"
    /\ num_value \in StringsUpTo(NumChars, MaxNumLen)
    /\ num_result = None
    /\ line = <<>> /\ parsers = <<>> /\ stripped = <<>> /\ idx = 0 /\ calls = <<>>
    /\ parsed = NoIngredient
    /\ earlier = <<>> /\ units_maps = <<>> /\ first_parse = <<>>
    /\ eq_call = <<>> /\ eq_result = ""
    /\ fn_call = <<>> /\ fn_result = <<>>
    /\ reg_units = <<>> /\ reg_map = <<>> /\ callers = <<>>

CallToNumber ==
    /\ pc = "call"
    /\ num_result' = to_number(num_value)
    /\ pc' = "done"
    /\ UNCHANGED <<num_value, line, parsers, stripped, idx, calls, parsed,
                   earlier, units_maps, first_parse, eq_call, eq_result, reg_units, reg_map, callers,
                   fn_call, fn_result>>

NextNumber == CallToNumber

SpecNumber == InitNumber /\ [][NextNumber]_vars

(***************************************************************************)
(* Specification of parse_ingredient_line: a line made of a quantity       *)
(* prefix, a name and up to MaxTailParts trailing notes and optional       *)
(* markers is parsed with the default parsers; a few lines are also parsed *)
(* with every list of at most MaxParsers parsers.  After a call on one of  *)
(* CallLines the process makes up to MaxEarlier further calls, the alias   *)
(* maps of the registries staying as the calls before left them.           *)
(***************************************************************************)
RECURSIVE Tails(_)
\* up to n trailing notes and optional markers
Tails(n) ==
    IF n = 0 THEN {<<>>}
    ELSE Tails(n - 1) \cup
         {t \o part : t \in Tails(n - 1),
                      part \in {<<",", " ", "n">>, <<" ", "(", "n", ")">>,
                              <<",", " ", "o", "p", "t", "i", "o", "n", "a", "l">>,
                              <<" ", "(", "o", "p", "t", "i", "o", "n", "a", "l", ")">>,
                              <<" ", "o", "p", "t", "i", "o", "n", "a", "l">>}}

\* every quantity prefix before the plain name, every name after a few
\* prefixes, and quantities with several terms on either side of a range
Lines ==
    {prefix \o <<"x">> \o tail :
        prefix \in {<<>>, <<"2", " ">>, <<"2", " ", "c", " ">>,
                   <<"2", "-", "1", " ", "c", " ">>, <<"2", "-", "o", "z", " ">>,
                   <<"1", "/", "0", " ">>,
                   <<"2", " ", "c", " ", "+", " ", "1", " ", "t", " ">>,
                   <<"2", " ", "c", " ", "(", "1", " ", "t", ")", " ">>, <<"a", " ">>,
                   <<"~", "2", " ", "c", " ">>, <<"2", " ", "l", "g", " ">>,
                   <<"2", " ", "2", "-", "o", "z", " ", "c", "a", "n", " ">>,
                   <<"-", " ", "2", " ", "c", " ">>},
        tail \in Tails(MaxTailParts)}
    \cup {prefix \o name \o tail :
            prefix \in {<<>>, <<"2", " ", "c", " ">>},
            name \in {<<"x">>, <<"o", "f", " ", "x">>,
                     <<"o", "p", "t", "o", "p", "t", "i", "o", "n", "a", "l", "i", "o", "n", "a", "l">>,
                     <<"x", " ", "2", " ", "c">>},
            tail \in Tails(MaxTailParts)}
    \cup {prefix \o <<"x">> :
            prefix \in {<<"2", " ", "t", "-", "1", " ", "c", " ">>,
                       <<"2", " ", "l", "g", "-", "1", " ", "c", " ">>,
                       <<"2", " ", "+", " ", "1", " ", "-", " ", "2", " ", "c", " ">>,
                       <<"2", " ", "-", " ", "1", " ", "+", " ", "2", " ", "c", " ">>,
                       <<"0", " ">>, <<"2", " ", "c", " ", "+", " ", "0", " ">>,
                       <<"2", "-", "1", " ", "c", " ", "+", " ", "0", " ">>,
                       <<"2", " ", "c", " ", "+", " ", "1", " ", "t", " ", "+", " ", "2", " ", "o", "z", " ">>,
                       <<"2", " ", "c", " ", "(", "0", ")", " ">>,
                       <<"2", " ", "c", " ", "(", "l", "g", ")", " ">>,
                       <<"2", " ", "c", " ", "(", "0", " ", "t", ")", " ">>,
                       <<"2", " ", "l", "g", "-", "c", " ">>,
                       <<"o", "f">>,
                       <<"O", "F", " ">>,
                       <<"2", " ", "c", " ", "o", "f">>,
                       <<"2", " ", "2", "-", "o", "z", " ", "c", "a", "n", " ", "o", "f">>,
                       <<"2", " ", "2", "-", "o", "z", " ", "c", "a", "n", " ", "o", "f", " ">>}}

\* parsers = parsers or DEFAULT_INGREDIENT_PARSERS
EffectiveParsers == IF parsers = <<>> THEN DEFAULT_INGREDIENT_PARSERS ELSE parsers

MaxEarlier == 2

\* the lines that runs of several calls are made of
CallLines ==
    {<<"x">>, <<"2", " ", "c", " ", "x">>, <<"2", "-", "1", " ", "c", " ", "x">>,
     <<"1", "/", "0", " ", "x">>,
     <<"2", " ", "2", "-", "o", "z", " ", "c", "a", "n", " ", "x">>}

InitLine ==
    /\ pc = "call"
    /\ \/ line \in Lines /\ parsers = <<>>
       \/ /\ line \in {prefix \o <<"x">> :
                      prefix \in {<<>>, <<"2", " ", "c", " ">>, <<"1", "/", "0", " ">>,
                                   <<"2", " ", "2", "-", "o", "z", " ", "c", "a", "n", " ">>,
                                   <<"-", " ", "2", " ", "c", " ">>}}
          /\ parsers \in UNION {[1..k -> {DEFAULT_INGREDIENT_PARSERS[i] :
                                            i \in 1..Len(DEFAULT_INGREDIENT_PARSERS)}] :
                                 k \in 1..MaxParsers}
    /\ stripped = <<>> /\ idx = 0 /\ calls = <<>>
    /\ parsed = NoIngredient
    /\ num_value = <<>> /\ num_result = None
    /\ earlier = <<>>
    /\ units_maps = [units \in {american_units, item_units} |->
                        [built |-> FALSE, entries |-> <<>>]]
    /\ first_parse = IF line \in CallLines /\ parsers = <<>>
                     THEN [l \in CallLines |-> parse_ingredient_line(l, <<>>)]
                     ELSE <<>>
    /\ eq_call = <<>> /\ eq_result = ""
    /\ fn_call = <<>> /\ fn_result = <<>>
    /\ reg_units = <<>> /\ reg_map = <<>> /\ callers = <<>>

\* ingredient_line = strip_bullet_points(ingredient_line, strip_bullets)
Begin ==
    /\ pc = "call"
    /\ stripped' = strip_bullet_points(line, DEFAULT_BULLET_REGEXES)
    /\ idx' = 1
    /\ pc' = "loop"
    /\ UNCHANGED <<num_value, num_result, line, parsers, calls, parsed,
                   earlier, units_maps, first_parse, eq_call, eq_result, reg_units, reg_map, callers,
                   fn_call, fn_result>>

\* a loop that keeps going after a non-null result: the last one wins
TryParserLastWins ==
    /\ pc = "loop"
    /\ idx <= Len(EffectiveParsers)
    /\ LET parsed_ingredient == CallParser(EffectiveParsers[idx], stripped)
       IN  /\ calls' = Append(calls, [parser |-> idx, kind |-> parsed_ingredient.kind])
           /\ units_maps' = MapsAfterCall(EffectiveParsers[idx], parsed_ingredient)
           /\ parsed' = IF parsed_ingredient.kind = "None" THEN parsed
                        ELSE parsed_ingredient
           /\ IF idx < Len(EffectiveParsers)
              THEN idx' = idx + 1 /\ UNCHANGED pc
              ELSE pc' = "returned" /\ UNCHANGED idx
    /\ UNCHANGED <<num_value, num_result, line, parsers, stripped,
                   earlier, first_parse, eq_call, eq_result, reg_units, reg_map, callers,
                   fn_call, fn_result>>

\* one turn of the for loop: parsed_ingredient = parser(ingredient_line)
\* if parsed_ingredient is not None: return parsed_ingredient
ReturnIfNotNone(parsed_ingredient) ==
    /\ calls' = Append(calls, [parser |-> idx, kind |-> parsed_ingredient.kind])
    /\ units_maps' = MapsAfterCall(EffectiveParsers[idx], parsed_ingredient)
    /\ IF parsed_ingredient.kind = "None"
       THEN idx' = idx + 1 /\ UNCHANGED <<pc, parsed>>
       ELSE /\ parsed' = parsed_ingredient
            /\ pc' = IF parsed_ingredient.kind = "Ingredient"
                     THEN "returned" ELSE "raised"
            /\ UNCHANGED idx

TryParser ==
    /\ pc = "loop"
    /\ idx <= Len(EffectiveParsers)
    /\ ReturnIfNotNone(CallParser(EffectiveParsers[idx], stripped))
    /\ UNCHANGED <<num_value, num_result, line, parsers, stripped,
                   earlier, first_parse, eq_call, eq_result, reg_units, reg_map, callers,
                   fn_call, fn_result>>

\* the return None after the loop
ReturnNone ==
    /\ pc = "loop"
    /\ idx > Len(EffectiveParsers)
    /\ parsed' = NoIngredient
    /\ pc' = "returned"
    /\ UNCHANGED <<num_value, num_result, line, parsers, stripped, idx, calls,
                   earlier, units_maps, first_parse, eq_call, eq_result, reg_units, reg_map, callers,
                   fn_call, fn_result>>

\* the process calls parse_ingredient_line again, with another line
NextCall ==
    /\ pc \in {"returned", "raised"}
    /\ first_parse # <<>>
    /\ Len(earlier) < MaxEarlier
    /\ earlier' = Append(earlier, line)
    /\ line' \in CallLines
    /\ pc' = "call"
    /\ stripped' = <<>> /\ idx' = 0 /\ calls' = <<>>
    /\ parsed' = NoIngredient
    /\ UNCHANGED <<num_value, num_result, parsers, units_maps, first_parse,
                   eq_call, eq_result, reg_units, reg_map, callers,
                   fn_call, fn_result>>

NextLine == Begin \/ TryParser \/ ReturnNone \/ NextCall

SpecLine == InitLine /\ [][NextLine]_vars

(***************************************************************************)
(* Specification of the equality methods: self == other on two Units (or a *)
(* Unit and a string), two Quantities, two QuantityRanges or two           *)
(* CompleteQuantities, and Ingredient.equals with every choice of compare  *)
(* flags, on a few objects of each class.                                  *)
(***************************************************************************)
InitEquals ==
    LET Ref(cls, objs) == {[cls |-> cls, obj |-> obj] : obj \in objs}
        cup_c == Unit(Some(<<"c", "u", "p">>), Some(<<"c">>), NoText, NoText, <<>>)
        cup_t == Unit(Some(<<"c", "u", "p">>), Some(<<"t">>), NoText, NoText, <<>>)
        units == Ref("Unit", {unit_cup, cup_c, cup_t, unit_teaspoon, NO_UNIT})
        strs == Ref("str", {<<"c">>, <<"c", "u", "p", "s">>, <<"x">>})
        quantities ==
            Ref("Quantity",
                {Quantity(amount, quantity_unit, approximate) :
                    amount \in {None, Num(RatInt(1)), Num(RatInt(2))},
                    quantity_unit \in {QuantityUnit(unit_cup, NoText),
                                       QuantityUnit(cup_c, NoText),
                                       QuantityUnit(NO_UNIT, Some(<<"l", "g">>))},
                    approximate \in BOOLEAN})
        one_cup == <<Quantity(Num(RatInt(1)), QuantityUnit(unit_cup, NoText), FALSE)>>
        no_total == [id |-> 0, quantities |-> <<>>]
        ranges == {QuantityRange(no_total, no_total),
                   QuantityRange([id |-> 1, quantities |-> one_cup], no_total),
                   QuantityRange([id |-> 2, quantities |-> one_cup], no_total)}
        completes == {CompleteQuantity(primary_quantity, equivalent_quantities) :
                        primary_quantity \in ranges,
                        equivalent_quantities \in
                            {<<>>, <<QuantityRange([id |-> 3, quantities |-> one_cup],
                                                   no_total)>>}}
        ingredients ==
            Ref("Ingredient",
                {Ingredient(name, quantity, notes, optional) :
                    name \in {<<"x">>, <<"y">>},
                    quantity \in {q \in completes : q.primary_quantity.from_quantity.id # 2},
                    notes \in {NoText, Some(<<"n">>)},
                    optional \in BOOLEAN})
        all_true == [notes |-> TRUE, optional |-> TRUE, equivalent |-> TRUE]
    IN  /\ pc = "call"
        /\ eq_call \in
              {[self |-> a, other |-> b, flags |-> all_true] :
                  a \in units, b \in units \cup strs}
              \cup {[self |-> a, other |-> b, flags |-> all_true] :
                      a \in quantities, b \in quantities}
              \cup {[self |-> a, other |-> b, flags |-> all_true] :
                      a \in Ref("QuantityRange", ranges), b \in Ref("QuantityRange", ranges)}
              \cup {[self |-> a, other |-> b, flags |-> all_true] :
                      a \in Ref("CompleteQuantity", completes),
                      b \in Ref("CompleteQuantity", completes)}
              \cup {[self |-> a, other |-> b, flags |-> f] :
                      a \in ingredients, b \in ingredients,
                      f \in [{"notes", "optional", "equivalent"} -> BOOLEAN]}
        /\ eq_result = ""
        /\ num_value = <<>> /\ num_result = None
        /\ line = <<>> /\ parsers = <<>> /\ stripped = <<>> /\ idx = 0 /\ calls = <<>>
        /\ parsed = NoIngredient
        /\ earlier = <<>> /\ units_maps = <<>> /\ first_parse = <<>>
        /\ reg_units = <<>> /\ reg_map = <<>> /\ callers = <<>>
        /\ fn_call = <<>> /\ fn_result = <<>>

\* self == other, or self.equals(other, ...) for an Ingredient: the method
\* of the class of self
CallEquals ==
    /\ pc = "call"
    /\ eq_result' =
          CASE eq_call.self.cls = "Unit" ->
                 IF Unit_eq(eq_call.self.obj, eq_call.other) THEN "True" ELSE "False"
            [] eq_call.self.cls = "Quantity" ->
                 IF Quantity_eq(eq_call.self.obj, eq_call.other) THEN "True" ELSE "False"
            [] eq_call.self.cls = "QuantityRange" ->
                 IF QuantityRange_equals(eq_call.self.obj, eq_call.other)
                 THEN "True" ELSE "False"
            [] eq_call.self.cls = "CompleteQuantity" ->
                 CompleteQuantity_equals(eq_call.self.obj, eq_call.other,
                                         eq_call.flags.equivalent)
            [] eq_call.self.cls = "Ingredient" ->
                 Ingredient_equals(eq_call.self.obj, eq_call.other, eq_call.flags.notes,
                                   eq_call.flags.optional, eq_call.flags.equivalent)
    /\ pc' = "done"
    /\ UNCHANGED <<num_value, num_result, line, parsers, stripped, idx, calls, parsed,
                   earlier, units_maps, first_parse, eq_call, reg_units, reg_map, callers,
                   fn_call, fn_result>>

NextEquals == CallEquals

SpecEquals == InitEquals /\ [][NextEquals]_vars

(***************************************************************************)
(* Specification of UnitsRegistry.__getitem__ on one registry that several *)
(* callers use at once.  The code takes no lock, so the steps of the       *)
(* callers interleave: the test of self._units_map, its assignment to {},  *)
(* each turn of the loop over self.units, and the final lookup.            *)
(***************************************************************************)
MaxCallers == 2

InitRegistry ==
    LET cup_t == Unit(Some(<<"c", "u", "p">>), Some(<<"t">>), NoText, NoText, <<>>)
        liter_L == Unit(Some(<<"l", "i", "t", "e", "r">>), Some(<<"L">>), NoText, NoText, <<>>)
        f_o == Unit(Some(<<"f", " ", " ", "o">>), Some(<<"f", "o">>), NoText, NoText, <<>>)
        items == {NoText} \cup
                 {Some(t) : t \in {<<"c">>, <<"c", "u", "p">>, <<"t">>, <<"l">>, <<"L">>,
                                   <<"F", " ", " ", " ", "O">>, <<"x">>}}
    IN  /\ pc = "registry"
        /\ reg_units \in {<<unit_cup, cup_t, unit_teaspoon>>, <<unit_teaspoon, cup_t>>,
                          <<liter_L, f_o>>, <<unit_liter, unit_cup>>}
        /\ reg_map = [built |-> FALSE, entries |-> <<>>]
        /\ \E n \in 1..MaxCallers :
              callers \in [1..n -> {[pc |-> "test", item |-> item, i |-> 0,
                                     builder |-> FALSE, result |-> NO_UNIT] :
                                        item \in items}]
        /\ num_value = <<>> /\ num_result = None
        /\ line = <<>> /\ parsers = <<>> /\ stripped = <<>> /\ idx = 0 /\ calls = <<>>
        /\ parsed = NoIngredient
        /\ earlier = <<>> /\ units_maps = <<>> /\ first_parse = <<>>
        /\ eq_call = <<>> /\ eq_result = ""
        /\ fn_call = <<>> /\ fn_result = <<>>

\* if self._units_map is None:
GetItemTest ==
    \E c \in DOMAIN callers :
        /\ callers[c].pc = "test"
        /\ callers' = [callers EXCEPT ![c].pc = IF reg_map.built THEN "lookup" ELSE "reset",
                                      ![c].builder = ~reg_map.built]
        /\ UNCHANGED reg_map
        /\ UNCHANGED <<pc, num_value, num_result, line, parsers, stripped, idx, calls,
                       parsed, earlier, units_maps, first_parse, eq_call, eq_result,
                       reg_units,
                       fn_call, fn_result>>

\* self._units_map = {}
GetItemReset ==
    \E c \in DOMAIN callers :
        /\ callers[c].pc = "reset"
        /\ reg_map' = [built |-> TRUE, entries |-> <<>>]
        /\ callers' = [callers EXCEPT ![c].pc = "loop", ![c].i = 1]
        /\ UNCHANGED <<pc, num_value, num_result, line, parsers, stripped, idx, calls,
                       parsed, earlier, units_maps, first_parse, eq_call, eq_result,
                       reg_units,
                       fn_call, fn_result>>

\* one turn of: for unit in self.units
GetItemLoop ==
    \E c \in DOMAIN callers :
        /\ callers[c].pc = "loop"
        /\ IF callers[c].i <= Len(reg_units)
           THEN /\ reg_map' = [reg_map EXCEPT
                                 !.entries = units_map(<<reg_units[callers[c].i]>>, @)]
                /\ callers' = [callers EXCEPT ![c].i = @ + 1]
           ELSE /\ callers' = [callers EXCEPT ![c].pc = "lookup"]
                /\ UNCHANGED reg_map
        /\ UNCHANGED <<pc, num_value, num_result, line, parsers, stripped, idx, calls,
                       parsed, earlier, units_maps, first_parse, eq_call, eq_result,
                       reg_units,
                       fn_call, fn_result>>

\* item = self.normalize_for_lookup(item), and the return statements
GetItemReturn ==
    \E c \in DOMAIN callers :
        /\ callers[c].pc = "lookup"
        /\ callers' = [callers EXCEPT
                         ![c].pc = "done",
                         ![c].result = IF ~callers[c].item.present THEN NO_UNIT
                                       ELSE MapLookup(reg_map.entries,
                                              normalize_for_lookup(callers[c].item.text))]
        /\ UNCHANGED reg_map
        /\ UNCHANGED <<pc, num_value, num_result, line, parsers, stripped, idx, calls,
                       parsed, earlier, units_maps, first_parse, eq_call, eq_result,
                       reg_units,
                       fn_call, fn_result>>

NextRegistry == GetItemTest \/ GetItemReset \/ GetItemLoop \/ GetItemReturn

SpecRegistry == InitRegistry /\ [][NextRegistry]_vars

(***************************************************************************)
(* Specification of the helper functions: one call of                      *)
(* extract_note_from_name on any bounded name, of strip_bullet_points on a *)
(* bounded line with patterns of every class, of TotalQuantity on a        *)
(* bounded list of Quantities, or of to_number on a value of any class.    *)
(***************************************************************************)
MaxNameLen == 5
MaxBulletLineLen == 4
MaxQuantities == 2

\* the patterns given to strip_bullet_points: the default one, r'^\s*',
\* which matches every line, and r'x'
BulletPatterns ==
    {DEFAULT_BULLET_REGEXES[1], Cat(<<[op |-> "bol"], Rep(WS, "*")>>), Lit(<<"x">>)}

InitFunctions ==
    /\ pc = "call"
    /\ fn_call \in
          {[fn |-> "extract_note_from_name", name |-> name] :
              name \in StringsUpTo({"x", ",", "(", ")", " "}, MaxNameLen)}
          \cup {[fn |-> "strip_bullet_points", ingredient_line |-> l, patterns |-> patterns] :
                  l \in StringsUpTo({"-", "*", " ", "x"}, MaxBulletLineLen),
                  patterns \in
                      {[cls |-> "bool", obj |-> b] : b \in BOOLEAN}
                      \cup {[cls |-> "NoneType", obj |-> <<>>]}
                      \cup {[cls |-> "str", obj |-> r] : r \in BulletPatterns \cup {Cat(<<>>)}}
                      \cup {[cls |-> "list", obj |-> rs] :
                              rs \in UNION {[1..k -> BulletPatterns] : k \in 0..2}}}
          \cup {[fn |-> "TotalQuantity", quantities |-> quantities] :
                  quantities \in
                      UNION {[1..k -> {Quantity(amount, quantity_unit, FALSE) :
                                          amount \in {None, Num(RatInt(0)), Num(RatInt(2))},
                                          quantity_unit \in
                                              {QuantityUnit(NO_UNIT, NoText),
                                               QuantityUnit(unit_cup, NoText),
                                               QuantityUnit(NO_UNIT, Some(<<"l", "g">>))}}] :
                             k \in 0..MaxQuantities}}
          \cup {[fn |-> "to_number", value |-> value] :
                  value \in {[cls |-> "int", obj |-> RatInt(0)], [cls |-> "int", obj |-> RatInt(2)],
                             [cls |-> "float", obj |-> Rat(5, 2)],
                             [cls |-> "bool", obj |-> RatInt(1)],
                             [cls |-> "NoneType", obj |-> <<>>], [cls |-> "list", obj |-> <<>>],
                             [cls |-> "bytes", obj |-> <<"2">>], [cls |-> "str", obj |-> <<"2">>],
                             [cls |-> "str", obj |-> <<"x">>]}}
    /\ fn_result = <<>>
    /\ num_value = <<>> /\ num_result = None
    /\ line = <<>> /\ parsers = <<>> /\ stripped = <<>> /\ idx = 0 /\ calls = <<>>
    /\ parsed = NoIngredient
    /\ earlier = <<>> /\ units_maps = <<>> /\ first_parse = <<>>
    /\ eq_call = <<>> /\ eq_result = ""
    /\ reg_units = <<>> /\ reg_map = <<>> /\ callers = <<>>

\* name, note = BasicIngredientParser.extract_note_from_name(name)
CallExtractNote ==
    /\ pc = "call" /\ fn_call.fn = "extract_note_from_name"
    /\ fn_result' = extract_note_from_name(fn_call.name)
    /\ pc' = "done"
    /\ UNCHANGED <<num_value, num_result, line, parsers, stripped, idx, calls, parsed,
                   earlier, units_maps, first_parse, eq_call, eq_result, reg_units,
                   reg_map, callers, fn_call>>

\* strip_bullet_points(ingredient_line, patterns)
CallStripBulletPoints ==
    /\ pc = "call" /\ fn_call.fn = "strip_bullet_points"
    /\ fn_result' = strip_bullet_points_value(fn_call.ingredient_line, fn_call.patterns)
    /\ pc' = "done"
    /\ UNCHANGED <<num_value, num_result, line, parsers, stripped, idx, calls, parsed,
                   earlier, units_maps, first_parse, eq_call, eq_result, reg_units,
                   reg_map, callers, fn_call>>

\* total = TotalQuantity(quantities), with q.is_empty() of every argument
\* and bool(total)
CallTotalQuantity ==
    /\ pc = "call" /\ fn_call.fn = "TotalQuantity"
    /\ fn_result' = [quantities |-> TotalQuantity(fn_call.quantities),
                     is_empty |-> [i \in 1..Len(fn_call.quantities) |->
                                      is_empty(fn_call.quantities[i])],
                     bool |-> TotalQuantityBool(TotalQuantity(fn_call.quantities))]
    /\ pc' = "done"
    /\ UNCHANGED <<num_value, num_result, line, parsers, stripped, idx, calls, parsed,
                   earlier, units_maps, first_parse, eq_call, eq_result, reg_units,
                   reg_map, callers, fn_call>>

\* to_number(value)
CallToNumberValue ==
    /\ pc = "call" /\ fn_call.fn = "to_number"
    /\ fn_result' = to_number_value(fn_call.value)
    /\ pc' = "done"
    /\ UNCHANGED <<num_value, num_result, line, parsers, stripped, idx, calls, parsed,
                   earlier, units_maps, first_parse, eq_call, eq_result, reg_units,
                   reg_map, callers, fn_call>>

NextFunctions ==
    CallExtractNote \/ CallStripBulletPoints \/ CallTotalQuantity \/ CallToNumberValue

SpecFunctions == InitFunctions /\ [][NextFunctions]_vars

(***************************************************************************)
(* Properties of to_number.                                                *)
(***************************************************************************)
IsDigitString(s) == s # <<>> /\ AllDigits(s)
ContainsLetter(s) == \E i \in 1..Len(s) : s[i] = "h"

RECURSIVE SumValues(_)
SumValues(results) ==
    IF results = <<>> THEN RatInt(0)
    ELSE RatAdd(results[1].val, SumValues(Tail(results)))

\* C2: to_number is total on strings: for every string it returns a number
\* or None and never raises.
C2_ToNumberNeverRaises ==
    pc = "done" => ~IsRaise(num_result)

\* C3: to_number returns None for every non-numeric string; in particular
\* for every string that contains a letter anywhere.
C3_NonNumericIsNone ==
    (pc = "done" /\ ContainsLetter(num_value)) => num_result = None

\* C4: space-around-division repair: for digit strings a and b (b not zero),
\* 'a /b', 'a/ b' and 'a / b' each yield a divided by b, like 'a/b'; and
\* 'n a/b' with a separate leading token n is the mixed number n + a/b.
C4_DivisionSpaceRepair ==
    pc = "done" =>
        LET i == find(num_value, "/")
            a == rstrip(SubSeq(num_value, 1, i - 1))
            b == lstrip(SubSeq(num_value, i + 1, Len(num_value)))
            toks == split(num_value)
            j == find(toks[2], "/")
            p == SubSeq(toks[2], 1, j - 1)
            q == SubSeq(toks[2], j + 1, Len(toks[2]))
        IN  /\ (i # 0 /\ IsDigitString(a) /\ IsDigitString(b) /\ DigitsValue(b) # 0)
                => num_result = Num(Rat(DigitsValue(a), DigitsValue(b)))
            /\ (/\ Len(toks) = 2
                /\ IsDigitString(toks[1])
                /\ j # 0 /\ IsDigitString(p) /\ IsDigitString(q) /\ DigitsValue(q) # 0)
                => num_result = Num(RatAdd(RatInt(DigitsValue(toks[1])),
                                           Rat(DigitsValue(p), DigitsValue(q))))

C4_Witness ==
    /\ pc = "done"
    /\ num_value = <<"1", " ", "/", " ", "2">>
    /\ num_result = Num(<<1, 2>>)

\* C5: mixed-number equivalence: to_number of several whitespace-separated
\* tokens is the sum of the values of the tokens, None if any token is None;
\* so for a digit string n and the fraction 1/2 with its vulgar glyph,
\* 'n <glyph>', 'n<glyph>' and 'n 1/2' all equal n + 1/2.
C5_MixedNumberEquivalence ==
    pc = "done" =>
        LET toks == split(num_value)
            each == [k \in 1..Len(toks) |-> to_number(toks[k])]
            n == toks[1]
            glued == SubSeq(n, 1, Len(n) - 1)
            half(m) == Num(RatAdd(RatInt(DigitsValue(m)), <<1, 2>>))
        IN  /\ (Len(toks) > 1 /\ \A k \in 1..Len(toks) : ~IsRaise(each[k]))
                => num_result = IF \E k \in 1..Len(toks) : each[k] = None
                                THEN None ELSE Num(SumValues(each))
            /\ (Len(toks) = 2 /\ IsDigitString(n) /\ toks[2] = <<VulgarHalf>>)
                => num_result = half(n)
            /\ (Len(toks) = 2 /\ IsDigitString(n) /\ toks[2] = <<"1", "/", "2">>)
                => num_result = half(n)
            /\ (Len(toks) = 1 /\ n[Len(n)] = VulgarHalf /\ IsDigitString(glued))
                => num_result = half(glued)

(***************************************************************************)
(* Properties of parse_ingredient_line.                                    *)
(***************************************************************************)
EndsWith(s, t) == Len(s) >= Len(t) /\ SubSeq(s, Len(s) - Len(t) + 1, Len(s)) = t
Contains(s, t) == \E i \in 1..(Len(s) - Len(t) + 1) : SubSeq(s, i, i + Len(t) - 1) = t

OptionalWord == <<"o", "p", "t", "i", "o", "n", "a", "l">>
OptionalMarkers == {<<",", " ", "o", "p", "t", "i", "o", "n", "a", "l">>, <<"(", "o", "p", "t", "i", "o", "n", "a", "l", ")">>, <<" ", "o", "p", "t", "i", "o", "n", "a", "l">>}
NoteTails == {<<",", " ", "n">>, <<" ", "(", "n", ")">>}

Decided == pc = "returned" /\ parsed.kind = "Ingredient"

\* C1: for every line, parse_ingredient_line with the default parsers raises
\* no exception and returns an Ingredient, never null; amount text that is
\* not a well-formed number gives an absent amount or the basic fallback.
C1_NeverRaisesNeverNull ==
    /\ pc # "raised"
    /\ (pc = "returned" /\ parsers = <<>>) => parsed.kind = "Ingredient"

\* C6: the configured parsers are called in list order on the bullet-stripped
\* line; every call before the last one returned null, so nothing is invoked
\* after a non-null result and no earlier non-null result is overridden; the
\* value returned is the result of the last parser called, or null when
\* every parser of the list returned null.
C6_FirstNonNullWins ==
    /\ \A i \in 1..Len(calls) : calls[i].parser = i
    /\ \A i \in 1..(Len(calls) - 1) : calls[i].kind = "None"
    /\ Len(calls) <= Len(EffectiveParsers)
    /\ pc = "returned" =>
          IF parsed.kind = "Ingredient"
          THEN /\ calls[Len(calls)].kind = "Ingredient"
               /\ parsed = CallParser(EffectiveParsers[Len(calls)],
                                      strip_bullet_points(line, DEFAULT_BULLET_REGEXES))
          ELSE /\ Len(calls) = Len(EffectiveParsers)
               /\ \A i \in 1..Len(calls) : calls[i].kind = "None"

C6_Witness ==
    /\ pc = "returned"
    /\ line = <<"2", " ", "c", " ", "x">>
    /\ parsers = <<"BasicIngredientParser", "IngredientParser">>
    /\ calls = <<[parser |-> 1, kind |-> "Ingredient"]>>
    /\ parsed.name = <<"2", " ", "c", " ", "x">>

\* C7: the basic fallback returns, for every string, an Ingredient whose
\* quantity has no from, to or equivalent terms; every call of it in a parser
\* list returns an Ingredient, so parse_ingredient_line with a list that ends
\* with it never returns null.
C7_BasicNeverFails ==
    /\ \A text \in {line, stripped} :
          LET r == BasicIngredientParser(text)
          IN  /\ r.kind = "Ingredient"
              /\ r.quantity = [primary_quantity |-> [from_quantity |-> <<>>,
                                                     to_quantity |-> <<>>],
                               equivalent_quantities |-> <<>>]
    /\ \A i \in 1..Len(calls) :
          EffectiveParsers[i] = "BasicIngredientParser" => calls[i].kind = "Ingredient"
    /\ (/\ pc = "returned"
        /\ EffectiveParsers[Len(EffectiveParsers)] = "BasicIngredientParser")
          => parsed.kind = "Ingredient"

C7_Witness ==
    /\ pc = "returned"
    /\ parsers = <<>>
    /\ line = <<"x", ",", " ", "n">>
    /\ Len(calls) = 4
    /\ \A i \in 1..3 : calls[i].kind = "None"
    /\ parsed = Ingredient(<<"x">>, NO_COMPLETE_QUANTITY, Some(<<"n">>), FALSE)

\* C8: for every line ending in an optional marker (', optional',
\* '(optional)', ' optional') the parsed Ingredient has optional = true and
\* the text 'optional' occurs neither in its name nor in its notes.
C8_OptionalMarkerRemoved ==
    (Decided /\ \E m \in OptionalMarkers : EndsWith(line, m)) =>
        /\ parsed.optional
        /\ ~Contains(lower(parsed.name), OptionalWord)
        /\ ~(parsed.notes.present /\ Contains(lower(parsed.notes.text), OptionalWord))

\* C9: for every line with a trailing ', n' or ' (n)' the note is extracted
\* into notes, and the name and the quantity are those of the line without
\* that trailing note.
C9_NoteLeavesRestAlone ==
    \A tail \in NoteTails :
        (Decided /\ parsers = <<>> /\ EndsWith(line, tail)) =>
            LET without == parse_ingredient_line(
                               SubSeq(line, 1, Len(line) - Len(tail)), <<>>)
            IN  without.kind = "Ingredient" =>
                    /\ parsed.notes.present
                    /\ Contains(parsed.notes.text, <<"n">>)
                    /\ parsed.name = without.name
                    /\ parsed.quantity = without.quantity

\* the two sides of the range as the deciding quantity parser extracted
\* them from the line, before the heuristic
ExtractedSides ==
    LET amount_required == EffectiveParsers[Len(calls)] = "IngredientBeforeQuantity"
        text == deoptionalize_ingredient_line(stripped)
        res == fullmatch(IF amount_required THEN IngredientBeforeQuantity_regex
                         ELSE IngredientParser_regex, text)
    IN  [from_quantity |-> parse_quantity_total_match(res, text, "from", amount_required).total,
         to_quantity |-> parse_quantity_total_match(res, text, "to", amount_required).total]

\* C10: when the 'from' side of a range has no unit and the 'to' side has
\* one, the first 'from' term gets the unit of the first 'to' term and keeps
\* its amount, and a 'to' side with an amount stays as it is: 'a-b unit' is
\* from = (a, unit), to = (b, unit).
C10_RangeUnitInheritance ==
    (/\ Decided
     /\ EffectiveParsers[Len(calls)] \in {"IngredientParser", "IngredientBeforeQuantity"})
      => LET from_quantity == ExtractedSides.from_quantity
             to_quantity == ExtractedSides.to_quantity
             primary == parsed.quantity.primary_quantity
         IN  (/\ Len(from_quantity) # 0
              /\ ~QuantityUnitBool(from_quantity[1].unit)
              /\ Len(to_quantity) # 0
              /\ QuantityUnitBool(to_quantity[1].unit))
               => /\ Len(primary.from_quantity) = Len(from_quantity)
                  /\ primary.from_quantity[1].unit = to_quantity[1].unit
                  /\ primary.from_quantity[1].amount = from_quantity[1].amount
                  /\ to_quantity[1].amount # None => primary.to_quantity = to_quantity

C10_Witness ==
    /\ pc = "returned"
    /\ line = <<"2", "-", "1", " ", "c", " ", "x">>
    /\ parsed.quantity.primary_quantity =
          QuantityRange(<<Quantity(Num(RatInt(2)), QuantityUnit(unit_cup, NoText), FALSE)>>,
                        <<Quantity(Num(RatInt(1)), QuantityUnit(unit_cup, NoText), FALSE)>>)

\* the run was decided by one of the two parsers of the full quantity grammar
DecidedByGrammar ==
    /\ Decided
    /\ EffectiveParsers[Len(calls)] \in {"IngredientParser", "IngredientBeforeQuantity"}

\* the unit copy of the heuristic applies to the extracted sides
UnitCopied ==
    /\ Len(ExtractedSides.from_quantity) # 0
    /\ ~QuantityUnitBool(ExtractedSides.from_quantity[1].unit)
    /\ Len(ExtractedSides.to_quantity) # 0

\* what C11 says of the 'from' side: it is as extracted when its first term
\* has a unit or a modifier, and only its first term ever differs
FromSideKept ==
    LET from_quantity == ExtractedSides.from_quantity
        returned == parsed.quantity.primary_quantity.from_quantity
    IN  /\ Len(returned) = Len(from_quantity)
        /\ \A i \in 2..Len(from_quantity) : returned[i] = from_quantity[i]
        /\ (Len(from_quantity) # 0 /\ QuantityUnitBool(from_quantity[1].unit))
              => returned = from_quantity

\* C11 as stated: when the first 'from' term has a unit or a modifier both
\* sides are returned as extracted, only the first 'from' term is ever
\* altered, and all 'to' terms are returned as extracted.
C11_OnlyFirstFromTermAltered ==
    DecidedByGrammar =>
        /\ FromSideKept
        /\ parsed.quantity.primary_quantity.to_quantity = ExtractedSides.to_quantity

\* C11 amended: as above, except that the 'to' side is discarded whole when
\* the unit was copied and the first 'to' term has no amount; otherwise the
\* 'to' side is returned as extracted.
C11_OnlyFirstFromTermAlteredOrToDiscarded ==
    DecidedByGrammar =>
        /\ FromSideKept
        /\ parsed.quantity.primary_quantity.to_quantity =
              IF UnitCopied /\ ExtractedSides.to_quantity[1].amount = None
              THEN <<>>
              ELSE ExtractedSides.to_quantity

C11_Witness ==
    /\ pc = "returned"
    /\ line = <<"2", " ", "+", " ", "1", " ", "-", " ", "2", " ", "c", " ", "x">>
    /\ UnitCopied
    /\ parsed.quantity.primary_quantity =
          QuantityRange(<<Quantity(Num(RatInt(2)), QuantityUnit(unit_cup, NoText), FALSE),
                          Quantity(Num(RatInt(1)), QuantityUnit(NO_UNIT, NoText), FALSE)>>,
                        <<Quantity(Num(RatInt(2)), QuantityUnit(unit_cup, NoText), FALSE)>>)

\* the terms of a label in text order: its first term, then one per captured
\* 'subsequent' repetition
RawTermsOf(label) ==
    LET amount_required == EffectiveParsers[Len(calls)] = "IngredientBeforeQuantity"
        text == deoptionalize_ingredient_line(stripped)
        res == fullmatch(IF amount_required THEN IngredientBeforeQuantity_regex
                         ELSE IngredientParser_regex, text)
        subs == captures(res, text, "subsequent" \o label)
    IN  <<QuantityOfMatch(american_units, res, text, label).quantity>> \o
        [i \in 1..Len(subs) |->
            QuantityOfMatch(american_units,
                            fullmatch(subsequent_regex[amount_required], subs[i]),
                            subs[i], "").quantity]

\* the terms of a label without those that have neither amount nor unit
TermsOf(label) ==
    SelectSeq(RawTermsOf(label), LAMBDA q : q.amount # None \/ QuantityUnitBool(q.unit))

\* C12: the TotalQuantity extracted for a label is the label's first term
\* followed by one Quantity per captured 'subsequent' repetition, in text
\* order, without the terms that have neither amount nor unit.
C12_AdditiveTermsInOrder ==
    DecidedByGrammar =>
        /\ ExtractedSides.from_quantity = TermsOf("from")
        /\ ExtractedSides.to_quantity = TermsOf("to")

\* C13: the CompleteQuantity has at most one equivalent QuantityRange, exactly
\* one when the equivalent group captured an amount or a unit and none
\* otherwise, and that range has an empty 'to' side.
C13_OneEquivalentRange ==
    DecidedByGrammar =>
        LET equivalent_quantities == parsed.quantity.equivalent_quantities
        IN  /\ Len(equivalent_quantities) = IF TermsOf("equivalent") # <<>> THEN 1 ELSE 0
            /\ \A i \in 1..Len(equivalent_quantities) :
                  equivalent_quantities[i].to_quantity = <<>>

(***************************************************************************)
(* Properties of the equality methods.                                     *)
(***************************************************************************)
\* the equality call has returned and both operands are of class cls
Compared(cls) ==
    pc = "done" /\ eq_call.self.cls = cls /\ eq_call.other.cls = cls

Aliases(u) == {UnitIter(u)[i] : i \in 1..Len(UnitIter(u))}

\* C14: two Ingredients with equal name, quantity, notes and optional flag
\* are equal (an Ingredient equals itself), and equals ignores notes,
\* optional or equivalent quantities exactly when their flag is false.
C14_IngredientEquality ==
    Compared("Ingredient") =>
        LET self == eq_call.self.obj
            other == eq_call.other.obj
        IN  (/\ self.name = other.name
             /\ self.quantity.primary_quantity = other.quantity.primary_quantity
             /\ eq_call.flags.equivalent =>
                  self.quantity.equivalent_quantities = other.quantity.equivalent_quantities
             /\ eq_call.flags.notes => self.notes = other.notes
             /\ eq_call.flags.optional => self.optional = other.optional)
              => eq_result = "True"

\* C15: a Unit equals a string exactly when the string is one of its
\* aliases, and equals another Unit exactly when the alias sets intersect.
C15_UnitFuzzyEquality ==
    (pc = "done" /\ eq_call.self.cls = "Unit") =>
        eq_result = IF eq_call.other.cls = "str"
                    THEN IF eq_call.other.obj \in Aliases(eq_call.self.obj)
                         THEN "True" ELSE "False"
                    ELSE IF Aliases(eq_call.self.obj) \cap Aliases(eq_call.other.obj) # {}
                         THEN "True" ELSE "False"

\* C16: two Quantities are equal iff both amounts are None, or the amounts
\* are equal and the units are equal; the approximate flags play no part.
C16_QuantityEquality ==
    Compared("Quantity") =>
        LET self == eq_call.self.obj
            other == eq_call.other.obj
        IN  eq_result =
              IF \/ self.amount = None /\ other.amount = None
                 \/ /\ self.amount = other.amount
                    /\ QuantityUnit_eq(self.unit, [cls |-> "QuantityUnit", obj |-> other.unit])
              THEN "True" ELSE "False"

C16_Witness ==
    /\ Compared("Quantity")
    /\ eq_call.self.obj.amount = Num(RatInt(1))
    /\ eq_call.self.obj.unit = eq_call.other.obj.unit
    /\ eq_call.self.obj.approximate # eq_call.other.obj.approximate
    /\ eq_result = "True"

(***************************************************************************)
(* Properties of the registry's alias map.                                 *)
(***************************************************************************)
\* the aliases of a unit as the map keys them
NormAliases(u) == {normalize_for_lookup(a) : a \in Aliases(u)}

Registered == UNION {NormAliases(reg_units[i]) : i \in 1..Len(reg_units)}

\* the earliest unit in registration order that lists the alias
Owner(alias) ==
    reg_units[CHOOSE i \in 1..Len(reg_units) :
                /\ alias \in NormAliases(reg_units[i])
                /\ \A j \in 1..(i - 1) : alias \notin NormAliases(reg_units[j])]

\* one caller found no map, and it has finished building one
BuiltBySoleBuilder ==
    /\ pc = "registry"
    /\ Cardinality({c \in DOMAIN callers : callers[c].builder}) = 1
    /\ \A c \in DOMAIN callers :
          callers[c].builder => callers[c].pc \in {"lookup", "done"}

\* C17: once the alias map is built, every alias maps to the earliest unit
\* in registration order that lists it, the non-colliding aliases of later
\* units are all registered, and nothing else is.
C17_FirstRegisteredWins ==
    BuiltBySoleBuilder =>
        /\ \A a \in Registered : MapGet(reg_map.entries, a, NO_UNIT) = Owner(a)
        /\ \A k \in 1..Len(reg_map.entries) : reg_map.entries[k][1] \in Registered

C17_Witness ==
    /\ BuiltBySoleBuilder
    /\ \E i, j \in 1..Len(reg_units) :
          /\ i < j
          /\ \E a \in NormAliases(reg_units[j]) :
                /\ a \in NormAliases(reg_units[i])
                /\ MapGet(reg_map.entries, a, NO_UNIT) = reg_units[i]
          /\ \E b \in NormAliases(reg_units[j]) :
                /\ \A k \in 1..(j - 1) : b \notin NormAliases(reg_units[k])
                /\ MapGet(reg_map.entries, b, NO_UNIT) = reg_units[j]

\* C18: a lookup returns the owner of the alias that equals the
\* whitespace-collapsed input; failing that, the owner of an alias that
\* equals it ignoring letter case; and None only when there is no such alias.
C18_CaseInsensitiveFallback ==
    (/\ pc = "registry" /\ Len(callers) = 1
     /\ callers[1].pc = "done" /\ callers[1].item.present) =>
        LET key == normalize_for_lookup(callers[1].item.text)
            matching == {a \in Registered : lower(a) = lower(key)}
        IN  IF key \in Registered THEN callers[1].result = Owner(key)
            ELSE IF matching # {} THEN \E a \in matching : callers[1].result = Owner(a)
            ELSE callers[1].result = NO_UNIT

\* C19: with several callers at once, every lookup of a registered alias
\* returns its owning Unit, and when all have returned the registry holds
\* the canonical map.
C19_ConcurrentLookups ==
    pc = "registry" =>
        /\ \A c \in DOMAIN callers :
              (/\ callers[c].pc = "done" /\ callers[c].item.present
               /\ normalize_for_lookup(callers[c].item.text) \in Registered)
                 => callers[c].result = Owner(normalize_for_lookup(callers[c].item.text))
        /\ (\A c \in DOMAIN callers : callers[c].pc = "done")
              => {reg_map.entries[k] : k \in 1..Len(reg_map.entries)}
                    = {<<a, Owner(a)>> : a \in Registered}

(***************************************************************************)
(* Properties of a process that parses several lines.                      *)
(***************************************************************************)
\* C20: whatever lines were parsed before, a line parses to what it parses
\* to in a process that has parsed nothing yet, and no step of a parse
\* changes an alias map that is built.
C20_HistoryIndependent ==
    /\ []((pc \in {"returned", "raised"} /\ first_parse # <<>>)
            => parsed = first_parse[line])
    /\ [][\A units \in DOMAIN units_maps :
            units_maps[units].built => units_maps'[units] = units_maps[units]]_vars

C20_Witness ==
    /\ pc = "returned"
    /\ \E i \in 1..Len(earlier) : earlier[i] = <<"2", " ", "c", " ", "x">>
    /\ line = <<"2", "-", "1", " ", "c", " ", "x">>
    /\ parsed = first_parse[line]
    /\ parsed.kind = "Ingredient"
    /\ parsed.quantity.primary_quantity.to_quantity[1].unit.unit = unit_cup

(***************************************************************************)
(* Properties of the range special case.                                   *)
(***************************************************************************)
\* C21: when the unit was copied and the first 'to' term has no amount, the
\* 'to' side is returned empty and the first 'from' term carries the unit
\* ('2-oz' is from = [(2, oz)], to empty); an extracted 'to' side that is
\* not empty is returned empty in this case only.
C21_ToSideDiscardedInSpecialCaseOnly ==
    DecidedByGrammar =>
        LET from_quantity == ExtractedSides.from_quantity
            to_quantity == ExtractedSides.to_quantity
            primary == parsed.quantity.primary_quantity
        IN  /\ (UnitCopied /\ to_quantity[1].amount = None)
                 => /\ primary.to_quantity = <<>>
                    /\ Len(primary.from_quantity) = Len(from_quantity)
                    /\ primary.from_quantity[1] =
                          Quantity(from_quantity[1].amount, to_quantity[1].unit,
                                   from_quantity[1].approximate)
            /\ (primary.to_quantity = <<>> /\ to_quantity # <<>>)
                 => /\ Len(from_quantity) # 0
                    /\ ~QuantityUnitBool(from_quantity[1].unit)
                    /\ to_quantity[1].amount = None

C21_Witness ==
    /\ pc = "returned"
    /\ line = <<"2", "-", "o", "z", " ", "x">>
    /\ ExtractedSides.to_quantity =
          <<Quantity(None, QuantityUnit(unit_ounce, NoText), FALSE)>>
    /\ parsed.quantity.primary_quantity =
          QuantityRange(<<Quantity(Num(RatInt(2)), QuantityUnit(unit_ounce, NoText), FALSE)>>,
                        <<>>)

(***************************************************************************)
(* Properties of the helper functions (SpecFunctions).                     *)
(***************************************************************************)
Returned(fn) == pc = "done" /\ fn_call.fn = fn

\* the positions of the note delimiters of a name, and the earliest one
Delimiters(name) == {i \in 1..Len(name) : name[i] \in {",", "("}}
Earliest(name) == CHOOSE i \in Delimiters(name) : \A j \in Delimiters(name) : i <= j
Before(name) == SubSeq(name, 1, Earliest(name) - 1)
After(name) == SubSeq(name, Earliest(name) + 1, Len(name))

\* the name is split at the earliest delimiter and is the trimmed text
\* before it; a name without a delimiter comes back unchanged, without note
SplitAtEarliest ==
    IF Delimiters(fn_call.name) = {}
    THEN fn_result = [name |-> fn_call.name, note |-> NoText]
    ELSE fn_result.name = strip(Before(fn_call.name))

\* C22: as stated: extract_note_from_name splits at the earliest ',' or '(',
\* the name is the trimmed text before it, a name with neither is returned
\* unchanged with note None, and with a comma first the note is the trimmed
\* text after that comma (whatever that text is)
C22_NoteIsTextAfterComma ==
    Returned("extract_note_from_name") =>
        /\ SplitAtEarliest
        /\ (Delimiters(fn_call.name) # {} /\ fn_call.name[Earliest(fn_call.name)] = ",")
             => fn_result.note = Some(strip(After(fn_call.name)))

\* C22: amended: the same, but with a comma first the note is the trimmed
\* text after that comma only when that text is not empty, and None when it
\* is empty
C22_NoteIsTextAfterCommaOrNone ==
    Returned("extract_note_from_name") =>
        /\ SplitAtEarliest
        /\ (Delimiters(fn_call.name) # {} /\ fn_call.name[Earliest(fn_call.name)] = ",")
             => fn_result.note = IF strip(After(fn_call.name)) = <<>> THEN NoText
                                 ELSE Some(strip(After(fn_call.name)))

C22_Witness ==
    /\ Returned("extract_note_from_name")
    /\ fn_call.name = <<" ", "x", ",", "(", " ">>
    /\ fn_result = [name |-> <<"x">>, note |-> Some(<<"(">>)]

\* the position of the last ')' of a name, 0 when it has none
LastClosing(name) ==
    IF \E j \in 1..Len(name) : name[j] = ")"
    THEN CHOOSE j \in 1..Len(name) : name[j] = ")" /\ \A k \in (j + 1)..Len(name) : name[k] # ")"
    ELSE 0

\* the '(' is the earliest delimiter of the name and a ')' follows it
ParenthesisedNote ==
    /\ Returned("extract_note_from_name")
    /\ Delimiters(fn_call.name) # {}
    /\ fn_call.name[Earliest(fn_call.name)] = "("
    /\ LastClosing(fn_call.name) > Earliest(fn_call.name)

\* the text between the earliest '(' and the last ')', trimmed, None if empty
Parenthesised(name) ==
    LET text == strip(SubSeq(name, Earliest(name) + 1, LastClosing(name) - 1))
    IN  IF text = <<>> THEN NoText ELSE Some(text)

\* C23: when the '(' comes before any comma the note is the text from that
\* parenthesis up to the last ')' of the name, without that ')'; text after
\* the last ')' is not part of the note
C23_NoteEndsAtLastClosingParen ==
    ParenthesisedNote => fn_result.note = Parenthesised(fn_call.name)

\* C23, away from the defect: the statement holds when the last ')' is the
\* last character of the name and no ')' stands directly before it
C23_NoteOfNameEndingInOneParen ==
    (/\ ParenthesisedNote
     /\ LastClosing(fn_call.name) = Len(fn_call.name)
     /\ fn_call.name[Len(fn_call.name) - 1] # ")")
        => fn_result.note = Parenthesised(fn_call.name)

\* C30: for every name, the name extract_note_from_name returns contains
\* neither ',' nor '(', has no leading or trailing whitespace whenever a split
\* happened, and the note is None or a non-empty string without leading or
\* trailing whitespace
C30_ExtractedNameAndNoteShape ==
    Returned("extract_note_from_name") =>
        /\ Delimiters(fn_result.name) = {}
        /\ Delimiters(fn_call.name) # {} => strip(fn_result.name) = fn_result.name
        /\ \/ fn_result.note = NoText
           \/ /\ fn_result.note.present
              /\ fn_result.note.text # <<>>
              /\ strip(fn_result.note.text) = fn_result.note.text

C30_Witness ==
    /\ Returned("extract_note_from_name")
    /\ fn_call.name = <<" ", "x", " ", "(", ")">>
    /\ fn_result = [name |-> <<"x">>, note |-> NoText]

\* the patterns argument is falsy: False, None, '' or an empty list
FalsyPatterns ==
    \/ fn_call.patterns.cls = "NoneType"
    \/ fn_call.patterns.cls = "bool" /\ ~fn_call.patterns.obj
    \/ fn_call.patterns.cls = "str" /\ fn_call.patterns.obj = Cat(<<>>)
    \/ fn_call.patterns.cls = "list" /\ fn_call.patterns.obj = <<>>

\* the patterns that are tried, in order
TriedPatterns ==
    IF fn_call.patterns.cls = "bool" THEN DEFAULT_BULLET_REGEXES
    ELSE IF fn_call.patterns.cls = "str" THEN <<fn_call.patterns.obj>>
    ELSE fn_call.patterns.obj

\* the pattern matches somewhere in the line (an empty match included)
MatchesIn(pattern, s) == \E i \in 1..(Len(s) + 1) : FirstMatch(pattern, s, i).ok

\* the result is the line with every match of the first pattern among
\* `deciding` removed, and the line itself when there is none
FirstOf(deciding) ==
    IF deciding = {} THEN fn_result = fn_call.ingredient_line
    ELSE LET first == CHOOSE k \in deciding : \A j \in deciding : k <= j
         IN  fn_result = sub(TriedPatterns[first], fn_call.ingredient_line)

\* with the default pattern one leading '-' or '*' goes, with the whitespace
\* around it; a line without a leading bullet is unchanged
OneDefaultBullet ==
    fn_call.patterns = [cls |-> "bool", obj |-> TRUE] =>
        LET text == lstrip(fn_call.ingredient_line)
        IN  IF text # <<>> /\ text[1] \in {"-", "*"}
            THEN fn_result = lstrip(Tail(text))
            ELSE fn_result = fn_call.ingredient_line

\* C25: as stated: strip_bullet_points returns the result of the first
\* pattern that matches and tries no further pattern; falsy patterns leave the
\* line unchanged; the default pattern removes exactly one leading bullet
C25_FirstMatchingPatternWins ==
    Returned("strip_bullet_points") =>
        /\ FalsyPatterns => fn_result = fn_call.ingredient_line
        /\ ~FalsyPatterns =>
              FirstOf({k \in 1..Len(TriedPatterns) :
                          MatchesIn(TriedPatterns[k], fn_call.ingredient_line)})
        /\ OneDefaultBullet

\* C25: amended: strip_bullet_points returns the result of the first pattern
\* whose substitution changes the line and tries no further pattern (a pattern
\* that matches without changing the line is passed over); falsy patterns
\* leave the line unchanged; the default pattern removes exactly one leading
\* bullet
C25_FirstChangingPatternWins ==
    Returned("strip_bullet_points") =>
        /\ FalsyPatterns => fn_result = fn_call.ingredient_line
        /\ ~FalsyPatterns =>
              FirstOf({k \in 1..Len(TriedPatterns) :
                          sub(TriedPatterns[k], fn_call.ingredient_line)
                              # fn_call.ingredient_line})
        /\ OneDefaultBullet

C25_Witness ==
    /\ Returned("strip_bullet_points")
    /\ fn_call.ingredient_line = <<"-", " ", "*", "x">>
    /\ fn_call.patterns = [cls |-> "list", obj |-> <<Cat(<<[op |-> "bol"], Rep(WS, "*")>>), DEFAULT_BULLET_REGEXES[1]>>]
    /\ fn_result = <<"*", "x">>

\* a Quantity without amount whose unit is falsy
AbsentAmountFalsyUnit(q) == q.amount = None /\ ~QuantityUnitBool(q.unit)

\* C26: a Quantity is empty iff its amount is None and its unit is falsy; a
\* Quantity with an amount, the amount 0 included, is never empty and is
\* never filtered out of a TotalQuantity
C26_EmptyIffNoAmountAndFalsyUnit ==
    Returned("TotalQuantity") =>
        /\ \A i \in 1..Len(fn_call.quantities) :
              fn_result.is_empty[i] <=> AbsentAmountFalsyUnit(fn_call.quantities[i])
        /\ SelectSeq(fn_call.quantities, LAMBDA q : q.amount # None)
              = SelectSeq(fn_result.quantities, LAMBDA q : q.amount # None)

\* C26, away from the defect: the statement holds for the Quantities whose
\* amount is not 0
C26_EmptyIffNoAmountAndFalsyUnitNonZero ==
    (/\ Returned("TotalQuantity")
     /\ \A i \in 1..Len(fn_call.quantities) : fn_call.quantities[i].amount # Num(RatInt(0)))
        => /\ \A i \in 1..Len(fn_call.quantities) :
                 fn_result.is_empty[i] <=> AbsentAmountFalsyUnit(fn_call.quantities[i])
           /\ SelectSeq(fn_call.quantities, LAMBDA q : q.amount # None)
                 = SelectSeq(fn_result.quantities, LAMBDA q : q.amount # None)

\* C28: to_number signals a type error for a value that is neither a number
\* nor a string, instead of returning a value, and returns an int or a float
\* unchanged
C28_TypeErrorOnMisuse ==
    Returned("to_number") =>
        /\ fn_call.value.cls \in {"int", "float"} => fn_result = Num(fn_call.value.obj)
        /\ fn_call.value.cls \notin {"int", "float", "bool", "str"}
              => fn_result.kind = "TypeError"

\* C28, the part that holds: an int or a float is returned unchanged
C28_NumberReturnedUnchanged ==
    (Returned("to_number") /\ fn_call.value.cls \in {"int", "float"})
        => fn_result = Num(fn_call.value.obj)

(***************************************************************************)
(* Properties of parse_ingredient_line, continued.                         *)
(***************************************************************************)
\* the free-text name the deciding parser starts from: the whole
\* deoptionalized line for the basic fallback, the 'name' group for the unit
\* size parser, the stripped 'name' group for the full grammar
CapturedName ==
    LET parser == EffectiveParsers[Len(calls)]
        text == deoptionalize_ingredient_line(stripped)
    IN  CASE parser = "BasicIngredientParser" -> text
          [] parser = "UnitSizeIngredientParser" ->
                group(fullmatch(UnitSizeIngredientParser_regex, text), text, "name").text
          [] parser = "IngredientParser" ->
                strip(group(fullmatch(IngredientParser_regex, text), text, "name").text)
          [] parser = "IngredientBeforeQuantity" ->
                strip(group(fullmatch(IngredientBeforeQuantity_regex, text), text, "name").text)

\* the name without a leading word 'of' (in any case) that whitespace follows
WithoutLeadingWordOf(name) ==
    IF Len(name) >= 3 /\ lower(SubSeq(name, 1, 2)) = <<"o", "f">> /\ IsSpace(name[3])
    THEN lstrip(SubSeq(name, 3, Len(name)))
    ELSE name

\* C24: only a leading word 'of' followed by whitespace is stripped from the
\* name, case-insensitively; a name that merely begins with the letters 'of'
\* is left unchanged, whichever parser decides the line
C24_OnlyLeadingWordOfStripped ==
    Decided =>
        /\ parsed.name = extract_note_from_name(WithoutLeadingWordOf(CapturedName)).name
        /\ parsed.notes = extract_note_from_name(WithoutLeadingWordOf(CapturedName)).note

\* C24, away from the defect: the statement holds for every name in which
\* the letters 'of' do not stand directly before a character that is not
\* whitespace
C24_LeadingWordOfStripped ==
    (/\ Decided
     /\ ~(/\ Len(CapturedName) >= 3
          /\ lower(SubSeq(CapturedName, 1, 2)) = <<"o", "f">>
          /\ ~IsSpace(CapturedName[3])))
        => /\ parsed.name = extract_note_from_name(WithoutLeadingWordOf(CapturedName)).name
           /\ parsed.notes = extract_note_from_name(WithoutLeadingWordOf(CapturedName)).note

\* every TotalQuantity of the returned Ingredient: the two sides of the
\* primary range and of every equivalent range
ReturnedSides ==
    {parsed.quantity.primary_quantity.from_quantity,
     parsed.quantity.primary_quantity.to_quantity}
    \cup UNION {{parsed.quantity.equivalent_quantities[i].from_quantity,
                 parsed.quantity.equivalent_quantities[i].to_quantity} :
                    i \in 1..Len(parsed.quantity.equivalent_quantities)}

\* C27: a TotalQuantity is built without the empty Quantities it is given,
\* the others in their order; it is truthy iff it holds a truthy Quantity;
\* and no element of a returned 'from' or 'to' side is empty, also after the
\* unit inheritance of parse_quantity_range_match
C27_NoEmptyQuantityInTotal ==
    /\ DecidedByGrammar =>
          /\ ExtractedSides.from_quantity
                = SelectSeq(RawTermsOf("from"), LAMBDA q : ~is_empty(q))
          /\ ExtractedSides.to_quantity
                = SelectSeq(RawTermsOf("to"), LAMBDA q : ~is_empty(q))
    /\ Decided =>
          \A side \in ReturnedSides :
              /\ \A i \in 1..Len(side) : ~is_empty(side[i]) /\ ~AbsentAmountFalsyUnit(side[i])
              /\ TotalQuantityBool(side) <=> side # <<>>

C27_Witness ==
    /\ pc = "returned"
    /\ line = <<"2", "-", "1", " ", "c", " ", "+", " ", "0", " ", "x">>
    /\ RawTermsOf("to") = <<Quantity(Num(RatInt(1)), QuantityUnit(unit_cup, NoText), FALSE), Quantity(Num(RatInt(0)), QuantityUnit(NO_UNIT, NoText), FALSE)>>
    /\ parsed.quantity.primary_quantity =
          QuantityRange(<<Quantity(Num(RatInt(2)), QuantityUnit(unit_cup, NoText), FALSE)>>,
                        <<Quantity(Num(RatInt(1)), QuantityUnit(unit_cup, NoText), FALSE)>>)

(***************************************************************************)
(* Properties of the equality methods, continued.                          *)
(***************************************************************************)
\* two TotalQuantity objects hold pairwise-equal Quantities in the same order
SameQuantities(a, b) ==
    /\ Len(a.quantities) = Len(b.quantities)
    /\ \A i \in 1..Len(a.quantities) :
          Quantity_eq(a.quantities[i], [cls |-> "Quantity", obj |-> b.quantities[i]])

\* C29: two QuantityRanges whose 'from' and 'to' sides hold pairwise-equal
\* Quantities in the same order are equal, and == on two CompleteQuantity
\* values returns a boolean without raising, also when their lists of
\* equivalent quantities are not empty
C29_StructuralTotalEquality ==
    /\ Compared("QuantityRange") =>
          ((/\ SameQuantities(eq_call.self.obj.from_quantity, eq_call.other.obj.from_quantity)
            /\ SameQuantities(eq_call.self.obj.to_quantity, eq_call.other.obj.to_quantity))
              => eq_result = "True")
    /\ Compared("CompleteQuantity") => eq_result \in {"True", "False"}

\* C29, away from the defects: ranges built on the same TotalQuantity objects
\* are equal, and == on two CompleteQuantity values without equivalent
\* quantities returns a boolean
C29_EqualityOfSharedTotals ==
    /\ Compared("QuantityRange") =>
          ((/\ eq_call.self.obj.from_quantity = eq_call.other.obj.from_quantity
            /\ eq_call.self.obj.to_quantity = eq_call.other.obj.to_quantity)
              => eq_result = "True")
    /\ (/\ Compared("CompleteQuantity")
        /\ eq_call.self.obj.equivalent_quantities = <<>>
        /\ eq_call.other.obj.equivalent_quantities = <<>>)
          => eq_result \in {"True", "False"}

====
